---- MODULE Spec2Model ----
(***************************************************************************)
(* Startup options simulator: the financial calculation engine             *)
(* (lib/calculations.ts, kept in src/unnamed/part_008) as a state machine. *)
(*                                                                         *)
(* Every engine function is pure.  A call is modelled as a small machine:  *)
(* Init draws the arguments from bounded sets, one action per statement    *)
(* group or loop iteration advances the call, and the last action stores   *)
(* the returned value.  The same step operators are folded into pure       *)
(* operators where one function calls another.                             *)
(*                                                                         *)
(* Numbers.  A JavaScript number is modelled by an exact rational          *)
(*   s * n / (k * 2^e)                                                     *)
(* with n a natural number of any size (a little-endian sequence of limbs),*)
(* k an odd integer and the fraction in lowest terms, so that equal values *)
(* have equal representations.  Double(x) rounds a rational to the nearest *)
(* IEEE-754 binary64 value (ties to even); it is applied to the search     *)
(* variables of findExitForTargetPayout, where the 53-bit precision        *)
(* decides whether the bisection can make progress.  The waterfall and the *)
(* dilution products are evaluated exactly.                                *)
(***************************************************************************)
EXTENDS Integers, Sequences, FiniteSets, TLC

(***************************************************************************)
(* Exact arithmetic                                                        *)
(***************************************************************************)
Base == 100 * 100

Limb(a, i) == IF i <= Len(a) THEN a[i] ELSE 0

RECURSIVE BNFromInt(_)
BNFromInt(i) == IF i = 0 THEN << >> ELSE <<i % Base>> \o BNFromInt(i \div Base)

RECURSIVE BNToInt(_)
BNToInt(a) == IF a = << >> THEN 0 ELSE a[1] + Base * BNToInt(Tail(a))

RECURSIVE BNTrim(_)
BNTrim(a) ==
  IF a = << >> THEN a
  ELSE IF a[Len(a)] = 0 THEN BNTrim(SubSeq(a, 1, Len(a) - 1)) ELSE a

RECURSIVE BNCmpFrom(_, _, _)
BNCmpFrom(a, b, i) ==
  IF i = 0 THEN 0
  ELSE IF a[i] < b[i] THEN -1
  ELSE IF a[i] > b[i] THEN 1
  ELSE BNCmpFrom(a, b, i - 1)

BNCmp(a, b) ==
  IF Len(a) < Len(b) THEN -1
  ELSE IF Len(a) > Len(b) THEN 1
  ELSE BNCmpFrom(a, b, Len(a))

RECURSIVE BNAddFrom(_, _, _, _)
BNAddFrom(a, b, i, c) ==
  IF i > Len(a) /\ i > Len(b) THEN (IF c = 0 THEN << >> ELSE <<c>>)
  ELSE LET s == Limb(a, i) + Limb(b, i) + c
       IN  <<s % Base>> \o BNAddFrom(a, b, i + 1, s \div Base)

BNAdd(a, b) == BNAddFrom(a, b, 1, 0)

RECURSIVE BNSubFrom(_, _, _, _)
BNSubFrom(a, b, i, c) ==
  IF i > Len(a) THEN << >>
  ELSE LET d == a[i] - Limb(b, i) - c
       IN  IF d < 0 THEN <<d + Base>> \o BNSubFrom(a, b, i + 1, 1)
           ELSE <<d>> \o BNSubFrom(a, b, i + 1, 0)

BNSub(a, b) == BNTrim(BNSubFrom(a, b, 1, 0))

RECURSIVE BNMulSmallFrom(_, _, _, _)
BNMulSmallFrom(a, m, i, c) ==
  IF i > Len(a) THEN BNFromInt(c)
  ELSE LET p == a[i] * m + c
       IN  <<p % Base>> \o BNMulSmallFrom(a, m, i + 1, p \div Base)

BNMulSmall(a, m) == IF m = 0 THEN << >> ELSE BNMulSmallFrom(a, m, 1, 0)

RECURSIVE BNMulFrom(_, _, _)
BNMulFrom(a, b, j) ==
  IF j > Len(b) THEN << >>
  ELSE LET rest == BNMulFrom(a, b, j + 1)
       IN  BNAdd(BNMulSmall(a, b[j]), IF rest = << >> THEN rest ELSE <<0>> \o rest)

BNMul(a, b) == IF a = << >> \/ b = << >> THEN << >> ELSE BNMulFrom(a, b, 1)

RECURSIVE BNModFrom(_, _, _, _)
BNModFrom(a, m, i, r) ==
  IF i = 0 THEN r ELSE BNModFrom(a, m, i - 1, (r * Base + a[i]) % m)

BNModSmall(a, m) == BNModFrom(a, m, Len(a), 0)

RECURSIVE BNDivFrom(_, _, _, _)
BNDivFrom(a, m, i, r) ==
  IF i = 0 THEN << >>
  ELSE LET cur == r * Base + a[i]
       IN  BNDivFrom(a, m, i - 1, cur % m) \o <<cur \div m>>

BNDivSmall(a, m) == BNTrim(BNDivFrom(a, m, Len(a), 0))

BNIsEven(a) == a = << >> \/ a[1] % 2 = 0

RECURSIVE BNShl(_, _)
BNShl(a, t) ==
  IF t = 0 THEN a
  ELSE IF t >= 13 THEN BNShl(BNMulSmall(a, 8192), t - 13)
  ELSE BNMulSmall(a, 2 ^ t)

RECURSIVE GCD(_, _)
GCD(a, b) == IF b = 0 THEN a ELSE GCD(b, a % b)

Abs(i) == IF i < 0 THEN -i ELSE i

\* s * n / (k * 2^e), canonical
RZero == [s |-> 1, n |-> << >>, k |-> 1, e |-> 0]

RECURSIVE RNorm(_, _, _, _)
RNorm(s, n, k, e) ==
  IF n = << >> THEN RZero
  ELSE IF k % 2 = 0 THEN RNorm(s, n, k \div 2, e + 1)
  ELSE IF e > 0 /\ BNIsEven(n) THEN RNorm(s, BNDivSmall(n, 2), k, e - 1)
  ELSE LET g == GCD(k, BNModSmall(n, k))
       IN  [s |-> s, n |-> IF g = 1 THEN n ELSE BNDivSmall(n, g), k |-> k \div g, e |-> e]

RInt(i) == RNorm(IF i < 0 THEN -1 ELSE 1, BNFromInt(Abs(i)), 1, 0)
RFrac(i, j) == RNorm(IF i < 0 THEN -1 ELSE 1, BNFromInt(Abs(i)), j, 0)

LCM(a, b) == (a \div GCD(a, b)) * b
Max(a, b) == IF a >= b THEN a ELSE b

\* numerator of x over the denominator K * 2^E
RScaled(x, K, E) == BNShl(BNMulSmall(x.n, K \div x.k), E - x.e)

RCmpMag(x, y) ==
  LET K == LCM(x.k, y.k)  E == Max(x.e, y.e)
  IN  BNCmp(RScaled(x, K, E), RScaled(y, K, E))

RSign(x) == IF x.n = << >> THEN 0 ELSE x.s

RCmp(x, y) ==
  IF RSign(x) # RSign(y) THEN (IF RSign(x) < RSign(y) THEN -1 ELSE 1)
  ELSE IF RSign(x) = 0 THEN 0
  ELSE RSign(x) * RCmpMag(x, y)

RLt(x, y) == RCmp(x, y) < 0
RLe(x, y) == RCmp(x, y) <= 0
RGt(x, y) == RCmp(x, y) > 0
RGe(x, y) == RCmp(x, y) >= 0
RMin(x, y) == IF RLe(x, y) THEN x ELSE y
RMax(x, y) == IF RGe(x, y) THEN x ELSE y

RNeg(x) == IF x.n = << >> THEN x ELSE [x EXCEPT !.s = -x.s]
RAbs(x) == IF x.s < 0 THEN RNeg(x) ELSE x

RAdd(x, y) ==
  LET K == LCM(x.k, y.k)  E == Max(x.e, y.e)
      a == RScaled(x, K, E)  b == RScaled(y, K, E)
  IN  IF x.s = y.s THEN RNorm(x.s, BNAdd(a, b), K, E)
      ELSE IF BNCmp(a, b) >= 0 THEN RNorm(x.s, BNSub(a, b), K, E)
      ELSE RNorm(y.s, BNSub(b, a), K, E)

RSub(x, y) == RAdd(x, RNeg(y))

RMul(x, y) ==
  IF x.n = << >> \/ y.n = << >> THEN RZero
  ELSE LET g1 == GCD(y.k, BNModSmall(x.n, y.k))
           g2 == GCD(x.k, BNModSmall(y.n, x.k))
           a  == IF g1 = 1 THEN x.n ELSE BNDivSmall(x.n, g1)
           b  == IF g2 = 1 THEN y.n ELSE BNDivSmall(y.n, g2)
       IN  RNorm(x.s * y.s, BNMul(a, b), (x.k \div g2) * (y.k \div g1), x.e + y.e)

\* 1 / y, y # 0 with a numerator that fits an integer
RInv(y) == RNorm(y.s, BNShl(BNFromInt(y.k), y.e), BNToInt(y.n), 0)

RDiv(x, y) == RMul(x, RInv(y))

RECURSIVE RPow(_, _)
RPow(x, p) == IF p = 0 THEN RInt(1) ELSE RMul(x, RPow(x, p - 1))



Two53 == BNShl(<<1>>, 53)

\* q halved until it is below 2^53: the significand, the last bit shifted out
\* (guard), whether any earlier bit shifted out was set (sticky), the shift count
RECURSIVE ToSignificand(_, _, _, _)
ToSignificand(q, guard, sticky, t) ==
  IF BNCmp(q, Two53) < 0 THEN [q |-> q, guard |-> guard, sticky |-> sticky, t |-> t]
  ELSE ToSignificand(BNDivSmall(q, 2), q[1] % 2, sticky \/ guard = 1, t + 1)

\* x rounded to the nearest binary64 value, ties to even (exponent range not modelled)
Double(x) ==
  IF x.n = << >> \/ (x.k = 1 /\ BNCmp(x.n, Two53) < 0) THEN x
  ELSE LET m  == IF x.k = 1 THEN 0 ELSE 75
           N  == BNShl(x.n, m)
           r  == ToSignificand(BNDivSmall(N, x.k), 0, BNModSmall(N, x.k) # 0, 0)
           up == r.guard = 1 /\ (r.sticky \/ r.q[1] % 2 = 1)
           q  == IF up THEN BNAdd(r.q, <<1>>) ELSE r.q
       IN  IF r.t >= x.e + m THEN RNorm(x.s, BNShl(q, r.t - x.e - m), 1, 0)
           ELSE RNorm(x.s, q, 1, x.e + m - r.t)

(***************************************************************************)
(* State                                                                   *)
(***************************************************************************)
VARIABLES
  wf,      \* one call of calculateWaterfall
  solver,  \* one call of findExitForTargetPayout
  dil,     \* one call of calculateOwnershipAfterDilution / calculateTotalDilution
  tax,     \* one call of calculateTaxes
  fr,      \* one call of deriveCompanyStage / fundingRoundsToPreferredRounds
  sc,      \* one call of deriveCompanyStage, getStageAdjustedExitScenarios or calculateExpectedValue
  opp,     \* one call of calculateOpportunityCostComparison
  pm,      \* one call of a primitive metric
  pipe,    \* the simulator pipeline from funding rounds to the waterfall
  rm,      \* the RoundModeling component and the round list it edits
  th       \* a SliderInput of OptionsInputs with its throttled callback

vars == <<wf, solver, dil, tax, fr, sc, opp, pm, pipe, rm, th>>

(***************************************************************************)
(* Bounds of the model and the argument sets the calls are drawn from      *)
(***************************************************************************)
MaxRounds == 2

Million == 1000 * 1000

ExitValuations ==
  {RInt(0), RInt(5 * Million), RInt(15 * Million), RInt(40 * Million), RInt(100 * Million)}

InvestedAmounts == {RInt(10 * Million)}
LiquidationMultiples == {RInt(1), RInt(2)}
PreferredTypes == {"non-participating", "participating"}
OwnershipPercents == {RInt(20), RInt(50), RInt(60)}
EmployeeOwnerships == {RFrac(1, 10), RInt(2)}

PreferredRound ==
  [investedAmount : InvestedAmounts, liquidationMultiple : LiquidationMultiples,
   preferredType : PreferredTypes, ownershipPercent : OwnershipPercents]

PreferredRoundLists == UNION {[1..n -> PreferredRound] : n \in 0..MaxRounds}

\* findExitForTargetPayout: the round lists, the exit valuations whose payout is
\* the target (the round trip) and the targets given directly
MaxSolverRounds == 1

SolverRound ==
  [investedAmount : {RInt(10 * Million)}, liquidationMultiple : {RInt(1)},
   preferredType : PreferredTypes, ownershipPercent : {RInt(20), RInt(100)}]

SolverRoundLists == UNION {[1..n -> SolverRound] : n \in 0..MaxSolverRounds}

RoundTripValuations == {RInt(0), RInt(5 * Million), RInt(40 * Million), RInt(100 * Million)}

TargetPayouts == {RInt(1), RInt(37500), RMul(RInt(3), RPow(RInt(10), 20))}

SolverOwnerships == {RZero, RFrac(1, 10)}

\* the dilution functions
MaxDilutionRounds == 2

DilutionRound == [dilutionPercent : {RInt(0), RInt(15), RInt(20), RInt(100)}]

DilutionRoundLists == UNION {[1..n -> DilutionRound] : n \in 0..MaxDilutionRounds}

InitialOwnerships == {RZero, RFrac(1, 10), RInt(50), RInt(100)}

(***************************************************************************)
(* calculateWaterfall                                                      *)
(***************************************************************************)
Hundred == RInt(100)

RECURSIVE TotalPreferredOwnership(_)
TotalPreferredOwnership(rounds) ==
  IF rounds = << >> THEN RZero
  ELSE RAdd(TotalPreferredOwnership(SubSeq(rounds, 1, Len(rounds) - 1)),
            rounds[Len(rounds)].ownershipPercent)

TotalCommonOwnership(rounds) == RSub(Hundred, TotalPreferredOwnership(rounds))

\* mutant: the guard only excludes a zero denominator
EmployeeOwnershipOfCommonNonZeroGuard(rounds, employeeOwnershipPercent) ==
  IF TotalCommonOwnership(rounds) # RZero
  THEN RMul(RDiv(employeeOwnershipPercent, TotalCommonOwnership(rounds)), Hundred)
  ELSE RZero

\* mutant: the employee's share is not rescaled to the common pool
EmployeeOwnershipOfCommonNotRescaled(rounds, employeeOwnershipPercent) ==
  IF RGt(TotalCommonOwnership(rounds), RZero) THEN employeeOwnershipPercent ELSE RZero

EmployeeOwnershipOfCommon(rounds, employeeOwnershipPercent) ==
  IF RGt(TotalCommonOwnership(rounds), RZero)
  THEN RMul(RDiv(employeeOwnershipPercent, TotalCommonOwnership(rounds)), Hundred)
  ELSE RZero

RECURSIVE Reverse(_)
Reverse(s) == IF s = << >> THEN << >> ELSE Reverse(Tail(s)) \o <<Head(s)>>

\* mutant: the copy is not reversed
SortedRoundsInInputOrder(preferredRounds) == preferredRounds

SortedRounds(preferredRounds) == Reverse(preferredRounds)

\* mutant: reverse() is applied to the argument itself
PreferredRoundsReversedInPlace(preferredRounds) == Reverse(preferredRounds)

\* the caller's list once sortedRounds is built: reverse() acts on the copy
\* [...preferredRounds]
PreferredRoundsAfterSort(preferredRounds) == preferredRounds

\* mutant: the liquidation multiple is left out of the preference
PreferenceWithoutMultiple(round) == round.investedAmount

Preference(round) == RMul(round.investedAmount, round.liquidationMultiple)

ProRata(round, exitValuation) ==
  RMul(RDiv(round.ownershipPercent, Hundred), exitValuation)

\* mutant: the payout is not capped by what is left
FirstPassPayoutUncapped(round, remainingValue, exitValuation) ==
  IF round.preferredType = "non-participating"
  THEN RMax(Preference(round), ProRata(round, exitValuation))
  ELSE Preference(round)

FirstPassPayout(round, remainingValue, exitValuation) ==
  IF round.preferredType = "non-participating"
  THEN RMin(remainingValue, RMax(Preference(round), ProRata(round, exitValuation)))
  ELSE RMin(remainingValue, Preference(round))

SecondPassPayout(round, remainingValue) ==
  IF round.preferredType = "participating" /\ RGt(remainingValue, RZero)
  THEN RMul(RDiv(round.ownershipPercent, Hundred), remainingValue)
  ELSE RZero

\* the two running totals after paying `payout`
Pay(acc, payout) ==
  [remainingValue |-> RSub(acc.remainingValue, payout),
   preferredPayout |-> RAdd(acc.preferredPayout, payout)]

RECURSIVE FirstPass(_, _, _, _)
FirstPass(sortedRounds, i, acc, exitValuation) ==
  IF i > Len(sortedRounds) THEN acc
  ELSE FirstPass(sortedRounds, i + 1,
                 Pay(acc, FirstPassPayout(sortedRounds[i], acc.remainingValue, exitValuation)),
                 exitValuation)

RECURSIVE SecondPass(_, _, _)
SecondPass(sortedRounds, i, acc) ==
  IF i > Len(sortedRounds) THEN acc
  ELSE SecondPass(sortedRounds, i + 1,
                  Pay(acc, SecondPassPayout(sortedRounds[i], acc.remainingValue)))

CommonPool(remainingValue) == RMax(RZero, remainingValue)

EmployeePayout(employeeOwnershipOfCommon, commonPool) ==
  RMul(RDiv(employeeOwnershipOfCommon, Hundred), commonPool)

\* mutant: the percentage is used as a fraction
NoPreferredResultPercentAsFraction(exitValuation, employeeOwnershipPercent) ==
  [exitValue |-> exitValuation,
   preferredPayout |-> RZero,
   commonPool |-> exitValuation,
   employeeOwnershipOfCommon |-> employeeOwnershipPercent,
   employeePayout |-> RMul(employeeOwnershipPercent, exitValuation)]

NoPreferredResult(exitValuation, employeeOwnershipPercent) ==
  [exitValue |-> exitValuation,
   preferredPayout |-> RZero,
   commonPool |-> exitValuation,
   employeeOwnershipOfCommon |-> employeeOwnershipPercent,
   employeePayout |-> RMul(RDiv(employeeOwnershipPercent, Hundred), exitValuation)]

WaterfallResult(exitValuation, acc, employeeOwnershipOfCommon) ==
  [exitValue |-> exitValuation,
   preferredPayout |-> acc.preferredPayout,
   commonPool |-> CommonPool(acc.remainingValue),
   employeeOwnershipOfCommon |-> employeeOwnershipOfCommon,
   employeePayout |-> EmployeePayout(employeeOwnershipOfCommon, CommonPool(acc.remainingValue))]

CalculateWaterfall(exitValuation, preferredRounds, employeeOwnershipPercent) ==
  IF Len(preferredRounds) = 0
  THEN NoPreferredResult(exitValuation, employeeOwnershipPercent)
  ELSE LET sortedRounds == SortedRounds(preferredRounds)
           start == [remainingValue |-> exitValuation, preferredPayout |-> RZero]
           acc == SecondPass(sortedRounds, 1, FirstPass(sortedRounds, 1, start, exitValuation))
       IN  WaterfallResult(exitValuation, acc,
                           EmployeeOwnershipOfCommon(preferredRounds, employeeOwnershipPercent))

\* the call as a machine: pc is the place in the function body
NoResult ==
  [exitValue |-> RZero, preferredPayout |-> RZero, commonPool |-> RZero,
   employeeOwnershipOfCommon |-> RZero, employeePayout |-> RZero]

WaterfallCall(exitValuation, preferredRounds, employeeOwnershipPercent) ==
  [pc |-> "call",
   exitValuation |-> exitValuation,
   preferredRounds |-> preferredRounds,
   employeeOwnershipPercent |-> employeeOwnershipPercent,
   employeeOwnershipOfCommon |-> RZero,
   sortedRounds |-> << >>,
   i |-> 0,
   remainingValue |-> RZero,
   preferredPayout |-> RZero,
   firstPassPaid |-> << >>,   \* history: the first-pass payouts, in payment order
   result |-> NoResult]

WaterfallIdle == [WaterfallCall(RZero, << >>, RZero) EXCEPT !.pc = "idle"]

(***************************************************************************)
(* findExitForTargetPayout                                                 *)
(***************************************************************************)
SearchPrecision == 1000

SafetyLimit == RPow(RInt(10), 15)

PayoutAt(valuation, preferredRounds, ownershipPercent) ==
  CalculateWaterfall(valuation, preferredRounds, ownershipPercent).employeePayout

\* targetPayout / (ownershipPercent / 100); the quotient is rounded once
ClosedForm(targetPayout, ownershipPercent) ==
  IF RGt(ownershipPercent, RZero)
  THEN Double(RDiv(targetPayout, RDiv(ownershipPercent, Hundred)))
  ELSE RZero

InitialHigh(targetPayout) == Double(RMul(targetPayout, Hundred))

GrowHigh(high) == Double(RMul(high, RInt(2)))

Width(low, high) == Double(RSub(high, low))

Mid(low, high) == Double(RDiv(Double(RAdd(low, high)), RInt(2)))

\* mutant: the halves are swapped
NarrowSwapped(low, high, mid, below) ==
  IF below THEN [low |-> low, high |-> mid] ELSE [low |-> mid, high |-> high]

\* the interval after one bisection; below: employeePayout at mid < targetPayout
Narrow(low, high, mid, below) ==
  IF below THEN [low |-> mid, high |-> high] ELSE [low |-> low, high |-> mid]

\* mutant: the lower end is returned
SearchResultLow(low, high) == low

SearchResult(low, high) == high

SolverCall(targetPayout, preferredRounds, ownershipPercent, roundTrip, exitValuation) ==
  [pc |-> "call",
   targetPayout |-> targetPayout,
   preferredRounds |-> preferredRounds,
   ownershipPercent |-> ownershipPercent,
   low |-> RZero,
   high |-> RZero,
   result |-> RZero,
   roundTrip |-> roundTrip,          \* the target is the payout at exitValuation
   exitValuation |-> exitValuation]

SolverIdle == [SolverCall(RZero, << >>, RZero, FALSE, RZero) EXCEPT !.pc = "idle"]

SolverClosedForm ==
  /\ solver.pc = "call"
  /\ (Len(solver.preferredRounds) = 0 \/ RLe(solver.ownershipPercent, RZero))
  /\ solver' = [solver EXCEPT !.pc = "done",
                              !.result = ClosedForm(solver.targetPayout, solver.ownershipPercent)]
  /\ UNCHANGED <<wf, dil, tax, fr, sc, opp, pm, pipe, rm, th>>

SolverBegin ==
  /\ solver.pc = "call"
  /\ ~(Len(solver.preferredRounds) = 0 \/ RLe(solver.ownershipPercent, RZero))
  /\ solver' = [solver EXCEPT !.pc = "grow",
                              !.low = RZero,
                              !.high = InitialHigh(solver.targetPayout)]
  /\ UNCHANGED <<wf, dil, tax, fr, sc, opp, pm, pipe, rm, th>>

SolverGrow ==
  /\ solver.pc = "grow"
  /\ RLt(PayoutAt(solver.high, solver.preferredRounds, solver.ownershipPercent),
         solver.targetPayout)
  /\ LET high == GrowHigh(solver.high)
     IN  solver' = [solver EXCEPT !.high = high,
                                 !.pc = IF RGt(high, SafetyLimit) THEN "search" ELSE "grow"]
  /\ UNCHANGED <<wf, dil, tax, fr, sc, opp, pm, pipe, rm, th>>

SolverGrowEnd ==
  /\ solver.pc = "grow"
  /\ ~RLt(PayoutAt(solver.high, solver.preferredRounds, solver.ownershipPercent),
          solver.targetPayout)
  /\ solver' = [solver EXCEPT !.pc = "search"]
  /\ UNCHANGED <<wf, dil, tax, fr, sc, opp, pm, pipe, rm, th>>

SolverBisect ==
  /\ solver.pc = "search"
  /\ RGt(Width(solver.low, solver.high), RInt(SearchPrecision))
  /\ LET mid == Mid(solver.low, solver.high)
         below == RLt(PayoutAt(mid, solver.preferredRounds, solver.ownershipPercent),
                      solver.targetPayout)
         next == Narrow(solver.low, solver.high, mid, below)
     IN  solver' = [solver EXCEPT !.low = next.low, !.high = next.high]
  /\ UNCHANGED <<wf, dil, tax, fr, sc, opp, pm, pipe, rm, th>>

SolverReturn ==
  /\ solver.pc = "search"
  /\ ~RGt(Width(solver.low, solver.high), RInt(SearchPrecision))
  /\ solver' = [solver EXCEPT !.pc = "done",
                              !.result = SearchResult(solver.low, solver.high)]
  /\ UNCHANGED <<wf, dil, tax, fr, sc, opp, pm, pipe, rm, th>>

(***************************************************************************)
(* calculateOwnershipAfterDilution, calculateTotalDilution                 *)
(***************************************************************************)
\* mutant: the round adds to the ownership
RetentionFactorGrowing(round) == RAdd(RInt(1), RDiv(round.dilutionPercent, Hundred))

\* 1 - round.dilutionPercent / 100
RetentionFactor(round) == RSub(RInt(1), RDiv(round.dilutionPercent, Hundred))

\* dilutionRounds.reduce((acc, round) => acc * (1 - round.dilutionPercent / 100), initial)
RECURSIVE ReduceRetention(_, _)
ReduceRetention(dilutionRounds, initial) ==
  IF dilutionRounds = << >> THEN initial
  ELSE RMul(ReduceRetention(SubSeq(dilutionRounds, 1, Len(dilutionRounds) - 1), initial),
            RetentionFactor(dilutionRounds[Len(dilutionRounds)]))

\* mutant: the dilutions are added up instead of compounded
RECURSIVE SumDilution(_)
SumDilution(dilutionRounds) ==
  IF dilutionRounds = << >> THEN RZero
  ELSE RAdd(SumDilution(Tail(dilutionRounds)), Head(dilutionRounds).dilutionPercent)

CalculateOwnershipAfterDilutionAdditive(initialOwnership, dilutionRounds) ==
  RMul(initialOwnership, RSub(RInt(1), RDiv(SumDilution(dilutionRounds), Hundred)))

CalculateOwnershipAfterDilution(initialOwnership, dilutionRounds) ==
  ReduceRetention(dilutionRounds, initialOwnership)

CalculateTotalDilution(dilutionRounds) ==
  IF Len(dilutionRounds) = 0 THEN RZero
  ELSE RMul(RSub(RInt(1), ReduceRetention(dilutionRounds, RInt(1))), Hundred)

DilutionCall(initialOwnership, dilutionRounds) ==
  [pc |-> "call",
   initialOwnership |-> initialOwnership,
   dilutionRounds |-> dilutionRounds,
   ownershipDone |-> FALSE,
   ownershipAfterDilution |-> RZero,
   totalDone |-> FALSE,
   totalDilution |-> RZero]

DilutionIdle == [DilutionCall(RZero, << >>) EXCEPT !.pc = "idle"]

CallOwnershipAfterDilution ==
  /\ dil.pc = "call"
  /\ ~dil.ownershipDone
  /\ dil' = [dil EXCEPT !.ownershipDone = TRUE,
                        !.ownershipAfterDilution =
                            CalculateOwnershipAfterDilution(dil.initialOwnership, dil.dilutionRounds)]
  /\ UNCHANGED <<wf, solver, tax, fr, sc, opp, pm, pipe, rm, th>>

CallTotalDilution ==
  /\ dil.pc = "call"
  /\ ~dil.totalDone
  /\ dil' = [dil EXCEPT !.totalDone = TRUE,
                        !.totalDilution = CalculateTotalDilution(dil.dilutionRounds)]
  /\ UNCHANGED <<wf, solver, tax, fr, sc, opp, pm, pipe, rm, th>>

(***************************************************************************)
(* calculateTaxes                                                          *)
(***************************************************************************)
AMT_RATE == RFrac(28, 100)
FICA_RATE == RFrac(765, 10000)
SS_RATE == RFrac(62, 1000)
MEDICARE_RATE == RFrac(145, 10000)
SS_WAGE_CAP == RInt(176100)

\* annualWages?: number
NoWages == [defined |-> FALSE, value |-> RZero]
Wages(w) == [defined |-> TRUE, value |-> w]

\* the arguments the calls are drawn from
NumbersOfOptions == {RInt(0), RInt(10000)}
StrikePrices == {RInt(1), RInt(5)}
ExerciseFMVs == {RFrac(1, 2), RInt(5), RInt(30)}
OptionTypes == {"ISO", "NSO"}
FederalTaxBrackets == {RFrac(22, 100), RFrac(32, 100)}
AnnualWages ==
  {NoWages, Wages(RZero), Wages(RInt(150000)), Wages(RInt(176100)), Wages(RInt(200000))}

\* mutant: Social Security is charged on the whole spread, whatever the wages
CalculateFicaTaxUncapped(spreadTotal, annualWages) ==
  [ficaTax |-> RAdd(RMul(spreadTotal, SS_RATE), RMul(spreadTotal, MEDICARE_RATE)),
   ssCapped |-> FALSE]

CalculateFicaTax(spreadTotal, annualWages) ==
  LET medicareTax == RMul(spreadTotal, MEDICARE_RATE)
  IN  IF ~annualWages.defined
        THEN [ficaTax |-> RMul(spreadTotal, FICA_RATE), ssCapped |-> FALSE]
      ELSE IF RGe(annualWages.value, SS_WAGE_CAP)
        THEN [ficaTax |-> medicareTax, ssCapped |-> TRUE]
      ELSE LET ssableAmount == RMin(spreadTotal, RSub(SS_WAGE_CAP, annualWages.value))
               ssTax == RMul(ssableAmount, SS_RATE)
           IN  [ficaTax |-> RAdd(ssTax, medicareTax),
                ssCapped |-> RLt(ssableAmount, spreadTotal)]

Spread(strikePrice, exerciseFMV) == RMax(RZero, RSub(exerciseFMV, strikePrice))

SpreadTotal(numberOfOptions, strikePrice, exerciseFMV) ==
  RMul(Spread(strikePrice, exerciseFMV), numberOfOptions)

\* mutant: the income tax alone, without FICA
OrdinaryIncomeTaxWithoutFica(incomeTax, ficaTax) == incomeTax

OrdinaryIncomeTax(incomeTax, ficaTax) == RAdd(incomeTax, ficaTax)

TaxesISO(numberOfOptions, strikePrice, exerciseFMV) ==
  LET spreadTotal == SpreadTotal(numberOfOptions, strikePrice, exerciseFMV)
      estimatedAMT == RMul(spreadTotal, AMT_RATE)
  IN  [spread |-> Spread(strikePrice, exerciseFMV),
       spreadTotal |-> spreadTotal,
       optionType |-> "ISO",
       amtIncome |-> spreadTotal,
       estimatedAMT |-> estimatedAMT,
       estimatedTaxAtExercise |-> estimatedAMT]

TaxesNSO(numberOfOptions, strikePrice, exerciseFMV, federalTaxBracket, annualWages) ==
  LET spreadTotal == SpreadTotal(numberOfOptions, strikePrice, exerciseFMV)
      fica == CalculateFicaTax(spreadTotal, annualWages)
      incomeTax == RMul(spreadTotal, federalTaxBracket)
      ordinaryIncomeTax == OrdinaryIncomeTax(incomeTax, fica.ficaTax)
  IN  [spread |-> Spread(strikePrice, exerciseFMV),
       spreadTotal |-> spreadTotal,
       optionType |-> "NSO",
       ordinaryIncome |-> spreadTotal,
       ordinaryIncomeTax |-> ordinaryIncomeTax,
       ficaTax |-> fica.ficaTax,
       ssCapped |-> fica.ssCapped,
       estimatedTaxAtExercise |-> ordinaryIncomeTax]

TaxCall(numberOfOptions, strikePrice, exerciseFMV, optionType, federalTaxBracket, annualWages) ==
  [pc |-> "call",
   numberOfOptions |-> numberOfOptions,
   strikePrice |-> strikePrice,
   exerciseFMV |-> exerciseFMV,
   optionType |-> optionType,
   federalTaxBracket |-> federalTaxBracket,
   annualWages |-> annualWages,
   result |-> [optionType |-> "none"]]

TaxIdle == [TaxCall(RZero, RZero, RZero, "ISO", RZero, NoWages) EXCEPT !.pc = "idle"]

CalculateTaxesISO ==
  /\ tax.pc = "call"
  /\ tax.optionType = "ISO"
  /\ tax' = [tax EXCEPT !.pc = "done",
                        !.result = TaxesISO(tax.numberOfOptions, tax.strikePrice, tax.exerciseFMV)]
  /\ UNCHANGED <<wf, solver, dil, fr, sc, opp, pm, pipe, rm, th>>

CalculateTaxesNSO ==
  /\ tax.pc = "call"
  /\ tax.optionType # "ISO"
  /\ tax' = [tax EXCEPT !.pc = "done",
                        !.result = TaxesNSO(tax.numberOfOptions, tax.strikePrice, tax.exerciseFMV,
                                            tax.federalTaxBracket, tax.annualWages)]
  /\ UNCHANGED <<wf, solver, dil, fr, sc, opp, pm, pipe, rm, th>>

(***************************************************************************)
(* deriveCompanyStage and fundingRoundsToPreferredRounds                   *)
(***************************************************************************)
\* a string is the sequence of its characters
UpperCase == <<"A", "B", "C", "D", "E", "F", "G", "H", "I", "J", "K", "L", "M", "N", "O", "P", "Q", "R", "S", "T", "U", "V", "W", "X", "Y", "Z">>
LowerCase == <<"a", "b", "c", "d", "e", "f", "g", "h", "i", "j", "k", "l", "m", "n", "o", "p", "q", "r", "s", "t", "u", "v", "w", "x", "y", "z">>

ToLowerChar(c) ==
  IF \E i \in 1..Len(UpperCase) : UpperCase[i] = c
    THEN LowerCase[CHOOSE i \in 1..Len(UpperCase) : UpperCase[i] = c]
    ELSE c

ToLowerCase(str) == [i \in 1..Len(str) |-> ToLowerChar(str[i])]

Includes(str, pattern) ==
  \E i \in 0..(Len(str) - Len(pattern)) : SubSeq(str, i + 1, i + Len(pattern)) = pattern

NameSeed == <<"S", "e", "e", "d">>
NameSeriesA == <<"S", "e", "r", "i", "e", "s", " ", "A">>
NameSeriesB == <<"S", "e", "r", "i", "e", "s", " ", "B">>
NameSeriesC == <<"S", "e", "r", "i", "e", "s", " ", "C">>
NameSeriesDPlus == <<"S", "e", "r", "i", "e", "s", " ", "D", "+">>
NameSeriesBUpper == <<"S", "E", "R", "I", "E", "S", " ", "B">>
NamePreSeed == <<"P", "r", "e", "-", "S", "e", "e", "d">>
NameBridge == <<"B", "r", "i", "d", "g", "e">>
NameSeedPlus == <<"S", "e", "e", "d", "+">>
NameRoundDPlus == <<"R", "o", "u", "n", "d", " ", "D", "+">>
NameSeriesAToSeriesC == <<"S", "e", "r", "i", "e", "s", " ", "A", " ", "t", "o", " ", "S", "e", "r", "i", "e", "s", " ", "C">>

\* the names FUNDING_ROUNDS offers
FUNDING_ROUNDS == <<NameSeed, NameSeriesA, NameSeriesB, NameSeriesC, NameSeriesDPlus>>

\* the arguments the calls are drawn from
MaxFundingRounds == 2

RoundNames ==
  {FUNDING_ROUNDS[i] : i \in 1..Len(FUNDING_ROUNDS)}
    \cup {NameSeriesBUpper, NamePreSeed, NameBridge, NameSeedPlus, NameRoundDPlus,
          NameSeriesAToSeriesC}

FundingRound ==
  [name : RoundNames, dilutionPercent : {RInt(20)}, amountRaised : {RInt(10 * Million)},
   liquidationMultiple : {RInt(1)}, preferredType : {"non-participating"}]

FundingRoundLists == UNION {[1..n -> FundingRound] : n \in 0..MaxFundingRounds}

CompanyStages == {"Pre-Seed", "Seed", "Series A", "Series B", "Series C+"}

PatternSeriesC == <<"s", "e", "r", "i", "e", "s", " ", "c">>
PatternSeriesD == <<"s", "e", "r", "i", "e", "s", " ", "d">>
PatternDPlus == <<"d", "+">>
PatternSeriesB == <<"s", "e", "r", "i", "e", "s", " ", "b">>
PatternSeriesA == <<"s", "e", "r", "i", "e", "s", " ", "a">>
PatternSeed == <<"s", "e", "e", "d">>
PatternPreSeed == <<"p", "r", "e", "-", "s", "e", "e", "d">>

LastRound(fundingRounds) == fundingRounds[Len(fundingRounds)]

StageOfName(name) ==
  IF Includes(name, PatternSeriesC) \/ Includes(name, PatternSeriesD)
       \/ Includes(name, PatternDPlus)
    THEN "Series C+"
  ELSE IF Includes(name, PatternSeriesB) THEN "Series B"
  ELSE IF Includes(name, PatternSeriesA) THEN "Series A"
  ELSE IF Includes(name, PatternSeed) \/ Includes(name, PatternPreSeed) THEN "Seed"
  ELSE "Seed"

DeriveCompanyStage(fundingRounds) ==
  IF Len(fundingRounds) = 0 THEN "Seed"
  ELSE StageOfName(ToLowerCase(LastRound(fundingRounds).name))

ToPreferredRound(round) ==
  [name |-> round.name,
   investedAmount |-> round.amountRaised,
   liquidationMultiple |-> round.liquidationMultiple,
   preferredType |-> round.preferredType,
   ownershipPercent |-> round.dilutionPercent]

FundingRoundsToPreferredRounds(fundingRounds) ==
  [i \in 1..Len(fundingRounds) |-> ToPreferredRound(fundingRounds[i])]

FundingCall(fundingRounds) ==
  [pc |-> "call",
   fundingRounds |-> fundingRounds,
   stageDone |-> FALSE,
   stage |-> "none",
   preferredDone |-> FALSE,
   preferredRounds |-> << >>]

FundingIdle == [FundingCall(<< >>) EXCEPT !.pc = "idle"]

CallDeriveCompanyStage ==
  /\ fr.pc = "call"
  /\ ~fr.stageDone
  /\ fr' = [fr EXCEPT !.stageDone = TRUE, !.stage = DeriveCompanyStage(fr.fundingRounds)]
  /\ UNCHANGED <<wf, solver, dil, tax, sc, opp, pm, pipe, rm, th>>

CallFundingRoundsToPreferredRounds ==
  /\ fr.pc = "call"
  /\ ~fr.preferredDone
  /\ fr' = [fr EXCEPT !.preferredDone = TRUE,
                      !.preferredRounds = FundingRoundsToPreferredRounds(fr.fundingRounds)]
  /\ UNCHANGED <<wf, solver, dil, tax, sc, opp, pm, pipe, rm, th>>

(***************************************************************************)
(* getStageAdjustedExitScenarios and calculateExpectedValue                *)
(***************************************************************************)
Scenario(name, multiple, probability) ==
  [name |-> name, multiple |-> multiple, probability |-> probability]

DEFAULT_EXIT_SCENARIOS ==
  <<Scenario("Failure", RInt(0), RFrac(75, 100)),
    Scenario("Acqui-hire", RFrac(15, 10), RFrac(10, 100)),
    Scenario("Moderate", RInt(3), RFrac(8, 100)),
    Scenario("Strong", RInt(5), RFrac(4, 100)),
    Scenario("Exceptional", RInt(10), RFrac(25, 1000)),
    Scenario("Unicorn", RInt(20), RFrac(5, 1000))>>

StageAdjustment(failureProb, unicornProb) ==
  [failureProb |-> failureProb, unicornProb |-> unicornProb]

STAGE_EXIT_ADJUSTMENTS ==
  [stage \in CompanyStages |->
     CASE stage = "Pre-Seed" -> StageAdjustment(RFrac(90, 100), RInt(1))
       [] stage = "Seed" -> StageAdjustment(RFrac(80, 100), RFrac(9, 10))
       [] stage = "Series A" -> StageAdjustment(RFrac(65, 100), RFrac(7, 10))
       [] stage = "Series B" -> StageAdjustment(RFrac(45, 100), RFrac(5, 10))
       [] stage = "Series C+" -> StageAdjustment(RFrac(20, 100), RFrac(3, 10))]

\* baseFailure - targetFailure
SuccessBoost(baseScenarios, adjustment) ==
  RSub(baseScenarios[1].probability, adjustment.failureProb)

IsUnicorn(scenario) == scenario.name = "Unicorn" \/ scenario.name = "Exceptional"

Boost(scenario, successBoost, adjustment) ==
  IF IsUnicorn(scenario)
    THEN RMul(RMul(successBoost, RFrac(1, 10)), adjustment.unicornProb)
    ELSE RMul(successBoost, RFrac(225, 1000))

\* the probability the map callback gives the scenario at (0-based) index
AdjustedProbability(scenario, index, successBoost, adjustment) ==
  IF index = 0 THEN adjustment.failureProb
  ELSE RAdd(scenario.probability, Boost(scenario, successBoost, adjustment))

\* { ...scenario, probability }: a new object
WithProbability(scenario, probability) == [scenario EXCEPT !.probability = probability]

\* mutant: the adjusted scenarios are returned without renormalization
NormalizeNever(adjustedScenarios, totalProb) == adjustedScenarios

Normalize(adjustedScenarios, totalProb) ==
  IF RGt(RAbs(RSub(totalProb, RInt(1))), RFrac(1, 1000))
    THEN LET scale == RDiv(RInt(1), totalProb)
         IN  [i \in 1..Len(adjustedScenarios) |->
                WithProbability(adjustedScenarios[i],
                                RMul(adjustedScenarios[i].probability, scale))]
    ELSE adjustedScenarios

\* mutant: the ownership percentage is used as a fraction
CalculateExitValueOwnershipAsFraction(ownershipPercent, companyValuation, exitMultiple) ==
  RMul(RMul(ownershipPercent, companyValuation), exitMultiple)

CalculateExitValue(ownershipPercent, companyValuation, exitMultiple) ==
  RMul(RMul(RDiv(ownershipPercent, Hundred), companyValuation), exitMultiple)

\* scenarios.reduce((sum, scenario) => sum + scenario.probability * exitValue, 0)
RECURSIVE WeightedValue(_, _, _)
WeightedValue(ownershipPercent, companyValuation, scenarios) ==
  IF scenarios = << >> THEN RZero
  ELSE LET n == Len(scenarios)
           exitValue == CalculateExitValue(ownershipPercent, companyValuation,
                                           scenarios[n].multiple)
       IN  RAdd(WeightedValue(ownershipPercent, companyValuation, SubSeq(scenarios, 1, n - 1)),
                RMul(scenarios[n].probability, exitValue))

CalculateExpectedValue(ownershipPercent, companyValuation, exerciseCost, scenarios) ==
  RSub(WeightedValue(ownershipPercent, companyValuation, scenarios), exerciseCost)

\* the arguments the calls are drawn from
EvenOdds == <<Scenario("Failure", RInt(0), RFrac(1, 2)), Scenario("Success", RInt(10), RFrac(1, 2))>>
LongOdds == <<Scenario("Failure", RInt(0), RFrac(9, 10)), Scenario("Success", RInt(2), RFrac(1, 10))>>

ScenarioLists == {<< >>, EvenOdds, LongOdds, DEFAULT_EXIT_SCENARIOS}
ScenarioOwnerships == {RZero, RFrac(1, 10), RInt(1)}
CompanyValuations == {RInt(10 * Million), RInt(50 * Million)}
ExerciseCosts == {RZero, RInt(15000), RInt(50000)}

ScenarioCall(fn, stage, ownershipPercent, companyValuation, exerciseCost, scenarios) ==
  [fn |-> fn,
   pc |-> "call",
   defaults |-> DEFAULT_EXIT_SCENARIOS,
   stage |-> stage,
   index |-> 0,
   totalProb |-> RZero,
   adjustedScenarios |-> << >>,
   result |-> << >>,
   ownershipPercent |-> ownershipPercent,
   companyValuation |-> companyValuation,
   exerciseCost |-> exerciseCost,
   scenarios |-> scenarios,
   expectedValue |-> RZero]

StageAdjustedCall(stage) ==
  ScenarioCall("getStageAdjustedExitScenarios", stage, RZero, RZero, RZero, << >>)

ExpectedValueCall(ownershipPercent, companyValuation, exerciseCost, scenarios) ==
  ScenarioCall("calculateExpectedValue", "Seed", ownershipPercent, companyValuation,
               exerciseCost, scenarios)

ScenarioIdle == [StageAdjustedCall("Seed") EXCEPT !.fn = "none", !.pc = "idle"]

\* one turn of baseScenarios.map
StageAdjustStep ==
  /\ sc.fn = "getStageAdjustedExitScenarios"
  /\ sc.pc = "call"
  /\ LET baseScenarios == sc.defaults
         adjustment == STAGE_EXIT_ADJUSTMENTS[sc.stage]
         scenario == baseScenarios[sc.index + 1]
         newProb == AdjustedProbability(scenario, sc.index,
                                        SuccessBoost(baseScenarios, adjustment), adjustment)
         last == sc.index + 1 = Len(baseScenarios)
     IN  sc' = [sc EXCEPT !.totalProb = RAdd(@, newProb),
                          !.adjustedScenarios = Append(@, WithProbability(scenario, newProb)),
                          !.index = @ + 1,
                          !.pc = IF last THEN "normalize" ELSE "call"]
  /\ UNCHANGED <<wf, solver, dil, tax, fr, opp, pm, pipe, rm, th>>

StageAdjustReturn ==
  /\ sc.fn = "getStageAdjustedExitScenarios"
  /\ sc.pc = "normalize"
  /\ sc' = [sc EXCEPT !.pc = "done", !.result = Normalize(sc.adjustedScenarios, sc.totalProb)]
  /\ UNCHANGED <<wf, solver, dil, tax, fr, opp, pm, pipe, rm, th>>

CallExpectedValue ==
  /\ sc.fn = "calculateExpectedValue"
  /\ sc.pc = "call"
  /\ sc' = [sc EXCEPT !.pc = "done",
                      !.expectedValue =
                          CalculateExpectedValue(sc.ownershipPercent, sc.companyValuation,
                                                 sc.exerciseCost, sc.scenarios)]
  /\ UNCHANGED <<wf, solver, dil, tax, fr, opp, pm, pipe, rm, th>>

(***************************************************************************)
(* calculateOpportunityCostComparison                                      *)
(***************************************************************************)
CalculateAlternativeInvestmentValue(principal, annualReturn, years) ==
  RMul(principal, RPow(RAdd(RInt(1), annualReturn), years))

\* mutant: the ramp is not capped at 1
CumulativeExitProbUncapped(year) == RFrac(year - 2, 8)

CumulativeExitProb(year) == RMin(RInt(1), RFrac(year - 2, 8))

\* scenarios.reduce((sum, scenario) => sum + scenario.probability * profit, 0)
RECURSIVE ExpectedExitValue(_, _, _, _)
ExpectedExitValue(ownershipPercent, companyValuation, exerciseCost, scenarios) ==
  IF scenarios = << >> THEN RZero
  ELSE LET n == Len(scenarios)
           exitValue == CalculateExitValue(ownershipPercent, companyValuation,
                                           scenarios[n].multiple)
           profit == RMax(RZero, RSub(exitValue, exerciseCost))
       IN  RAdd(ExpectedExitValue(ownershipPercent, companyValuation, exerciseCost,
                                  SubSeq(scenarios, 1, n - 1)),
                RMul(scenarios[n].probability, profit))

CalculateOptionsExpectedValueAtYear(ownershipPercent, companyValuation, exerciseCost, year, scenarios) ==
  IF year < 3 THEN RZero
  ELSE RMul(CumulativeExitProb(year),
            ExpectedExitValue(ownershipPercent, companyValuation, exerciseCost, scenarios))

\* breakEvenYear: number | null
NullYear == << >>
Year(y) == <<y>>

\* mutant: the year is overwritten whenever the options are ahead
TrackBreakEvenYearLatest(breakEvenYear, year, optionsExpectedValue, alternativeGain) ==
  IF RGt(optionsExpectedValue, alternativeGain) THEN Year(year) ELSE breakEvenYear

\* mutant: a tie with the alternative's gain counts as breaking even
TrackBreakEvenYearOnTie(breakEvenYear, year, optionsExpectedValue, alternativeGain) ==
  IF breakEvenYear = NullYear /\ RGe(optionsExpectedValue, alternativeGain)
    THEN Year(year)
    ELSE breakEvenYear

TrackBreakEvenYear(breakEvenYear, year, optionsExpectedValue, alternativeGain) ==
  IF breakEvenYear = NullYear /\ RGt(optionsExpectedValue, alternativeGain)
    THEN Year(year)
    ELSE breakEvenYear

\* the arguments the calls are drawn from
MaxHorizon == 11

Principals == {RZero, RInt(15000), RInt(200000)}
OpportunityOwnerships == {RZero, RFrac(1, 10)}
AlternativeReturnRates == {RFrac(-1, 2), RZero, RFrac(1, 16), RFrac(1, 2)}

OpportunityCall(exerciseCost, ownershipPercent, companyValuation, alternativeReturnRate, timeHorizonYears) ==
  [pc |-> "loop",
   exerciseCost |-> exerciseCost,
   ownershipPercent |-> ownershipPercent,
   companyValuation |-> companyValuation,
   alternativeReturnRate |-> alternativeReturnRate,
   timeHorizonYears |-> timeHorizonYears,
   year |-> 0,
   dataPoints |-> << >>,
   breakEvenYear |-> NullYear,
   finalAlternativeValue |-> RZero,
   finalOptionsExpectedValue |-> RZero]

OpportunityIdle == [OpportunityCall(RZero, RZero, RZero, RZero, 0) EXCEPT !.pc = "idle"]

\* one turn of the loop over the years
OpportunityYear ==
  /\ opp.pc = "loop"
  /\ opp.year <= opp.timeHorizonYears
  /\ LET alternativeValue ==
           CalculateAlternativeInvestmentValue(opp.exerciseCost, opp.alternativeReturnRate,
                                               opp.year)
         optionsExpectedValue ==
           CalculateOptionsExpectedValueAtYear(opp.ownershipPercent, opp.companyValuation,
                                               opp.exerciseCost, opp.year,
                                               DEFAULT_EXIT_SCENARIOS)
         alternativeGain == RSub(alternativeValue, opp.exerciseCost)
     IN  opp' = [opp EXCEPT !.dataPoints =
                                Append(@, [year |-> opp.year,
                                           alternativeValue |-> alternativeValue,
                                           optionsExpectedValue |-> optionsExpectedValue]),
                            !.breakEvenYear =
                                TrackBreakEvenYear(@, opp.year, optionsExpectedValue,
                                                   alternativeGain),
                            !.year = @ + 1]
  /\ UNCHANGED <<wf, solver, dil, tax, fr, sc, pm, pipe, rm, th>>

OpportunityReturn ==
  /\ opp.pc = "loop"
  /\ opp.year > opp.timeHorizonYears
  /\ LET finalPoint == opp.dataPoints[Len(opp.dataPoints)]
     IN  opp' = [opp EXCEPT !.pc = "done",
                            !.finalAlternativeValue = finalPoint.alternativeValue,
                            !.finalOptionsExpectedValue = finalPoint.optionsExpectedValue]
  /\ UNCHANGED <<wf, solver, dil, tax, fr, sc, pm, pipe, rm, th>>

(***************************************************************************)
(* The primitive metrics                                                   *)
(***************************************************************************)
\* the number Infinity
Infinity == [s |-> 1, n |-> <<1>>, k |-> 0, e |-> 0]

DeriveValuationFromOwnership(numberOfOptions, currentFMV, ownershipPercent) ==
  IF RLe(ownershipPercent, RZero) \/ RLe(numberOfOptions, RZero) THEN RZero
  ELSE LET shareValue == RMul(numberOfOptions, currentFMV)
       IN  RDiv(shareValue, RDiv(ownershipPercent, Hundred))

CalculatePaperGainPercent(paperGain, exerciseCost) ==
  IF exerciseCost = RZero THEN RZero
  ELSE RMul(RDiv(paperGain, exerciseCost), Hundred)

CalculateBreakEvenMultiple(strikePrice, currentFMV) ==
  IF currentFMV = RZero THEN Infinity
  ELSE RDiv(strikePrice, currentFMV)

\* mutant: a zero exercise cost always gives 0
CalculateROIZeroFallback(profit, exerciseCost) ==
  IF exerciseCost = RZero THEN RZero
  ELSE RMul(RDiv(profit, exerciseCost), Hundred)

CalculateROI(profit, exerciseCost) ==
  IF exerciseCost = RZero THEN (IF RGt(profit, RZero) THEN Infinity ELSE RZero)
  ELSE RMul(RDiv(profit, exerciseCost), Hundred)

\* the arguments the calls are drawn from
MetricOptions == {RInt(-1), RZero, RInt(10000)}
MetricFMVs == {RZero, RFrac(1, 2), RInt(5)}
MetricOwnerships == {RInt(-1), RZero, RFrac(1, 10), RInt(1)}
MetricGains == {RInt(-5000), RZero, RInt(40000)}
MetricCosts == {RZero, RInt(10000), RInt(15000)}
MetricStrikes == {RZero, RInt(1), RInt(5)}

MetricCall(fn, a, b, c) == [fn |-> fn, pc |-> "call", a |-> a, b |-> b, c |-> c, result |-> RZero]

MetricsIdle == [MetricCall("none", RZero, RZero, RZero) EXCEPT !.pc = "idle"]

\* deriveValuationFromOwnership(a = numberOfOptions, b = currentFMV, c = ownershipPercent)
CallDeriveValuationFromOwnership ==
  /\ pm.pc = "call"
  /\ pm.fn = "deriveValuationFromOwnership"
  /\ pm' = [pm EXCEPT !.pc = "done", !.result = DeriveValuationFromOwnership(pm.a, pm.b, pm.c)]
  /\ UNCHANGED <<wf, solver, dil, tax, fr, sc, opp, pipe, rm, th>>

\* calculatePaperGainPercent(a = paperGain, b = exerciseCost)
CallPaperGainPercent ==
  /\ pm.pc = "call"
  /\ pm.fn = "calculatePaperGainPercent"
  /\ pm' = [pm EXCEPT !.pc = "done", !.result = CalculatePaperGainPercent(pm.a, pm.b)]
  /\ UNCHANGED <<wf, solver, dil, tax, fr, sc, opp, pipe, rm, th>>

\* calculateBreakEvenMultiple(a = strikePrice, b = currentFMV)
CallBreakEvenMultiple ==
  /\ pm.pc = "call"
  /\ pm.fn = "calculateBreakEvenMultiple"
  /\ pm' = [pm EXCEPT !.pc = "done", !.result = CalculateBreakEvenMultiple(pm.a, pm.b)]
  /\ UNCHANGED <<wf, solver, dil, tax, fr, sc, opp, pipe, rm, th>>

\* calculateROI(a = profit, b = exerciseCost)
CallROI ==
  /\ pm.pc = "call"
  /\ pm.fn = "calculateROI"
  /\ pm' = [pm EXCEPT !.pc = "done", !.result = CalculateROI(pm.a, pm.b)]
  /\ UNCHANGED <<wf, solver, dil, tax, fr, sc, opp, pipe, rm, th>>

(***************************************************************************)
(* The simulator pipeline: funding rounds, dilution, waterfall             *)
(***************************************************************************)
\* ownership * (1 - round.dilutionPercent / 100), over the funding rounds
RECURSIVE CalculateOwnershipAfterDilutionFromFundingRounds(_, _)
CalculateOwnershipAfterDilutionFromFundingRounds(initialOwnership, fundingRounds) ==
  IF fundingRounds = << >> THEN initialOwnership
  ELSE LET n == Len(fundingRounds)
       IN  RMul(CalculateOwnershipAfterDilutionFromFundingRounds(
                  initialOwnership, SubSeq(fundingRounds, 1, n - 1)),
                RSub(RInt(1), RDiv(fundingRounds[n].dilutionPercent, Hundred)))

\* the ownership the exit scenarios use
EffectiveOwnership(ownershipPercent, fundingRounds) ==
  IF Len(fundingRounds) > 0
    THEN CalculateOwnershipAfterDilutionFromFundingRounds(ownershipPercent, fundingRounds)
    ELSE ownershipPercent

\* the arguments the pipeline is drawn from: the ends of the ownership and
\* dilution sliders and values between them
MaxPipelineRounds == 2

PipelineOwnerships == {RFrac(1, 10), RInt(10)}
PipelineDilutions == {RInt(0), RInt(20), RInt(49), RInt(50)}
PipelineExitValuations == {RInt(0), RInt(10 * Million), RInt(100 * Million)}

PipelineRound ==
  [name : {NameSeed}, dilutionPercent : PipelineDilutions, amountRaised : {RInt(3 * Million)},
   liquidationMultiple : {RInt(1)}, preferredType : PreferredTypes]

PipelineRoundLists == UNION {[1..n -> PipelineRound] : n \in 0..MaxPipelineRounds}

PipelineInputs(ownershipPercent, fundingRounds, exitValuation) ==
  [pc |-> "inputs",
   ownershipPercent |-> ownershipPercent,
   fundingRounds |-> fundingRounds,
   exitValuation |-> exitValuation,
   preferredRounds |-> << >>,
   effectiveOwnership |-> RZero,
   waterfall |-> NoResult]

PipelineIdle == [PipelineInputs(RZero, << >>, RZero) EXCEPT !.pc = "idle"]

\* results, preferredRounds and effectiveOwnership of OptionsSimulator
PipelineDerive ==
  /\ pipe.pc = "inputs"
  /\ pipe' = [pipe EXCEPT !.pc = "derived",
                          !.preferredRounds = FundingRoundsToPreferredRounds(pipe.fundingRounds),
                          !.effectiveOwnership =
                              EffectiveOwnership(pipe.ownershipPercent, pipe.fundingRounds)]
  /\ UNCHANGED <<wf, solver, dil, tax, fr, sc, opp, pm, rm, th>>

HasPreferred(preferredRounds) == Len(preferredRounds) > 0

\* the scenario card's calculateWaterfall(scenario.value, preferredRounds, ownershipPercent)
PipelineWaterfall ==
  /\ pipe.pc = "derived"
  /\ HasPreferred(pipe.preferredRounds)
  /\ pipe' = [pipe EXCEPT !.pc = "done",
                          !.waterfall = CalculateWaterfall(pipe.exitValuation, pipe.preferredRounds,
                                                           pipe.effectiveOwnership)]
  /\ UNCHANGED <<wf, solver, dil, tax, fr, sc, opp, pm, rm, th>>

\* without preferred rounds the card has no waterfall
PipelineNoWaterfall ==
  /\ pipe.pc = "derived"
  /\ ~HasPreferred(pipe.preferredRounds)
  /\ pipe' = [pipe EXCEPT !.pc = "done"]
  /\ UNCHANGED <<wf, solver, dil, tax, fr, sc, opp, pm, rm, th>>

(***************************************************************************)
(* RoundModeling                                                           *)
(***************************************************************************)
DILUTION_DEFAULTS == <<RInt(20), RInt(18), RInt(15), RInt(11), RInt(8)>>

TYPICAL_ROUND_AMOUNTS ==
  <<RInt(3 * Million), RInt(15 * Million), RInt(40 * Million), RInt(80 * Million),
    RInt(150 * Million)>>

\* FUNDING_ROUNDS.indexOf(name), counted from 0; -1 when the name is not there
IndexOf(names, name) ==
  IF \E i \in 1..Len(names) : names[i] = name
    THEN (CHOOSE i \in 1..Len(names) : names[i] = name /\ \A j \in 1..(i - 1) : names[j] # name) - 1
    ELSE -1

GetDefaultDilution(roundName) ==
  IF IndexOf(FUNDING_ROUNDS, roundName) >= 0
    THEN DILUTION_DEFAULTS[IndexOf(FUNDING_ROUNDS, roundName) + 1]
    ELSE RInt(15)

TypicalRoundAmount(roundName) ==
  IF IndexOf(FUNDING_ROUNDS, roundName) >= 0
    THEN TYPICAL_ROUND_AMOUNTS[IndexOf(FUNDING_ROUNDS, roundName) + 1]
    ELSE RInt(10 * Million)

CreateFundingRound(id, name) ==
  [id |-> id,
   name |-> name,
   dilutionPercent |-> GetDefaultDilution(name),
   amountRaised |-> TypicalRoundAmount(name),
   liquidationMultiple |-> RInt(1),
   preferredType |-> "non-participating"]

\* generateRoundId(): an id no round of the list has
FreshRoundId(rounds) == CHOOSE id \in 1..(Len(rounds) + 1) : \A i \in 1..Len(rounds) : rounds[i].id # id

\* no round is offered
NoRound == << >>

NextRoundIndex(rounds) ==
  IF Len(rounds) > 0 THEN IndexOf(FUNDING_ROUNDS, rounds[Len(rounds)].name) + 1 ELSE 0

NextRound(rounds) ==
  IF NextRoundIndex(rounds) < Len(FUNDING_ROUNDS)
    THEN FUNDING_ROUNDS[NextRoundIndex(rounds) + 1]
    ELSE NoRound

AddRound(rounds, name) == Append(rounds, CreateFundingRound(FreshRoundId(rounds), name))

\* mutant: the first round is dropped
RemoveFirstRound(rounds) == IF Len(rounds) > 0 THEN Tail(rounds) ELSE rounds

\* rounds.slice(0, -1) when there is a round; the list as it is otherwise
RemoveLastRound(rounds) ==
  IF Len(rounds) > 0 THEN SubSeq(rounds, 1, Len(rounds) - 1) ELSE rounds

\* { ...r, ...updates }
Merge(r, updates) ==
  [field \in DOMAIN r |-> IF field \in DOMAIN updates THEN updates[field] ELSE r[field]]

UpdateRound(rounds, id, updates) ==
  [i \in 1..Len(rounds) |-> IF rounds[i].id = id THEN Merge(rounds[i], updates) ELSE rounds[i]]

ResetAdvancedToDefaults(rounds) ==
  [i \in 1..Len(rounds) |->
     Merge(rounds[i], [liquidationMultiple |-> RInt(1), preferredType |-> "non-participating"])]

\* the updates the round's controls send for a round named name
RoundUpdates(name) ==
  {[dilutionPercent |-> RInt(50)], [dilutionPercent |-> GetDefaultDilution(name)],
   [liquidationMultiple |-> RInt(2)], [preferredType |-> "participating"]}

RoundModelingState(rounds, op) == [rounds |-> rounds, op |-> op]

RoundModelingIdle == RoundModelingState(<< >>, "idle")

\* the add button, shown when a next round is offered
ClickAddRound ==
  /\ rm.op # "idle"
  /\ NextRound(rm.rounds) # NoRound
  /\ rm' = RoundModelingState(AddRound(rm.rounds, NextRound(rm.rounds)), "addRound")
  /\ UNCHANGED <<wf, solver, dil, tax, fr, sc, opp, pm, pipe, th>>

ClickRemoveLastRound ==
  /\ rm.op # "idle"
  /\ rm' = RoundModelingState(RemoveLastRound(rm.rounds), "removeLastRound")
  /\ UNCHANGED <<wf, solver, dil, tax, fr, sc, opp, pm, pipe, th>>

ChangeRound ==
  /\ rm.op # "idle"
  /\ \E i \in 1..Len(rm.rounds) : \E updates \in RoundUpdates(rm.rounds[i].name) :
       rm' = RoundModelingState(UpdateRound(rm.rounds, rm.rounds[i].id, updates), "updateRound")
  /\ UNCHANGED <<wf, solver, dil, tax, fr, sc, opp, pm, pipe, th>>

ClickResetAdvanced ==
  /\ rm.op # "idle"
  /\ Len(rm.rounds) > 0
  /\ rm' = RoundModelingState(ResetAdvancedToDefaults(rm.rounds), "resetAdvancedToDefaults")
  /\ UNCHANGED <<wf, solver, dil, tax, fr, sc, opp, pm, pipe, th>>

(***************************************************************************)
(* useThrottledCallback under a slider of OptionsInputs                    *)
(***************************************************************************)
\* a ref holding null, and a ref holding a value
Null == << >>

Ref(value) == <<value>>

MaxTime == 8

ThrottleDelays == {2, 3}

SliderValues == {1, 2}

OtherValues == {1, 2}

\* the inputs object of a render: the slider's field and another field
Inputs(slider, other) == [slider |-> slider, other |-> other]

\* updateInput of the render whose inputs are given: onChange({ ...inputs, [key]: value })
UpdateInput(inputs, value) == [inputs EXCEPT !.slider = value]

\* the callback runs: the inputs it sets and the record of the invocation
Invoke(t, closure, args) ==
  [t EXCEPT !.inputs = UpdateInput(closure, args),
            !.invokedArgs = Ref(args),
            !.invokedAt = IF Len(t.invokedAt) = 0 THEN <<t.now>> ELSE <<t.invokedAt[Len(t.invokedAt)], t.now>>]

\* mutant: a timer is set whether or not one is pending
MayScheduleAlways(timeoutRef) == TRUE

\* !timeoutRef.current
MaySchedule(timeoutRef) == timeoutRef = Null

\* the timer set by a throttled call: when it is due and the callback it closes over
Timer(due, closure) == [due |-> due, closure |-> closure]

ThrottledCall(t, args) ==
  LET u == [t EXCEPT !.lastArgs = Ref(args)]
  IN  IF u.now - u.lastCall >= u.delay
        THEN Invoke([u EXCEPT !.lastCall = u.now], u.inputs, args)
        ELSE IF MaySchedule(u.timeoutRef)
          THEN LET timer == Timer(u.now + (u.delay - (u.now - u.lastCall)), u.inputs)
               IN  [u EXCEPT !.timeoutRef = Ref(timer), !.timers = u.timers \cup {timer}]
          ELSE u

TimerCallback(t, timer) ==
  LET u == [t EXCEPT !.lastCall = t.now, !.timers = t.timers \ {timer}]
      v == IF u.lastArgs # Null THEN Invoke(u, timer.closure, u.lastArgs[1]) ELSE u
  IN  [v EXCEPT !.timeoutRef = Null, !.trailing = TRUE]

ThrottleState(pc, delay) ==
  [pc |-> pc, delay |-> delay, now |-> delay, lastCall |-> 0, lastArgs |-> Null,
   timeoutRef |-> Null, timers |-> {}, inputs |-> Inputs(0, 0),
   invokedArgs |-> Null, invokedAt |-> << >>, trailing |-> FALSE]

ThrottleIdle == ThrottleState("idle", 0)

\* Date.now() advances
Tick ==
  /\ th.pc = "mounted"
  /\ th.now < MaxTime
  /\ th' = [th EXCEPT !.now = th.now + 1]
  /\ UNCHANGED <<wf, solver, dil, tax, fr, sc, opp, pm, pipe, rm>>

\* the slider moves
SliderChange ==
  /\ th.pc = "mounted"
  /\ \E value \in SliderValues : th' = ThrottledCall(th, value)
  /\ UNCHANGED <<wf, solver, dil, tax, fr, sc, opp, pm, pipe, rm>>

\* a timer runs, at its time or later
TimerFire ==
  /\ th.pc = "mounted"
  /\ \E timer \in th.timers :
       /\ th.now >= timer.due
       /\ th' = TimerCallback(th, timer)
  /\ UNCHANGED <<wf, solver, dil, tax, fr, sc, opp, pm, pipe, rm>>

\* another field of the inputs is set
OtherChange ==
  /\ th.pc = "mounted"
  /\ \E value \in OtherValues : th' = [th EXCEPT !.inputs.other = value]
  /\ UNCHANGED <<wf, solver, dil, tax, fr, sc, opp, pm, pipe, rm>>

WaterfallNoPreferred ==
  /\ wf.pc = "call"
  /\ Len(wf.preferredRounds) = 0
  /\ wf' = [wf EXCEPT !.pc = "done",
                      !.result = NoPreferredResult(wf.exitValuation, wf.employeeOwnershipPercent)]
  /\ UNCHANGED <<solver, dil, tax, fr, sc, opp, pm, pipe, rm, th>>

WaterfallBegin ==
  /\ wf.pc = "call"
  /\ Len(wf.preferredRounds) # 0
  /\ wf' = [wf EXCEPT !.pc = "first",
                      !.employeeOwnershipOfCommon =
                          EmployeeOwnershipOfCommon(wf.preferredRounds, wf.employeeOwnershipPercent),
                      !.remainingValue = wf.exitValuation,
                      !.preferredPayout = RZero,
                      !.sortedRounds = SortedRounds(wf.preferredRounds),
                      !.preferredRounds = PreferredRoundsAfterSort(wf.preferredRounds),
                      !.i = 1]
  /\ UNCHANGED <<solver, dil, tax, fr, sc, opp, pm, pipe, rm, th>>

FirstPassStep ==
  /\ wf.pc = "first"
  /\ LET round == wf.sortedRounds[wf.i]
         payout == FirstPassPayout(round, wf.remainingValue, wf.exitValuation)
         acc == Pay(wf, payout)
         last == wf.i = Len(wf.sortedRounds)
     IN  wf' = [wf EXCEPT !.remainingValue = acc.remainingValue,
                          !.preferredPayout = acc.preferredPayout,
                          !.firstPassPaid = Append(@, [round |-> round, payout |-> payout]),
                          !.i = IF last THEN 1 ELSE @ + 1,
                          !.pc = IF last THEN "second" ELSE "first"]
  /\ UNCHANGED <<solver, dil, tax, fr, sc, opp, pm, pipe, rm, th>>

SecondPassStep ==
  /\ wf.pc = "second"
  /\ LET round == wf.sortedRounds[wf.i]
         acc == Pay(wf, SecondPassPayout(round, wf.remainingValue))
         last == wf.i = Len(wf.sortedRounds)
     IN  wf' = [wf EXCEPT !.remainingValue = acc.remainingValue,
                          !.preferredPayout = acc.preferredPayout,
                          !.i = IF last THEN 0 ELSE @ + 1,
                          !.pc = IF last THEN "return" ELSE "second"]
  /\ UNCHANGED <<solver, dil, tax, fr, sc, opp, pm, pipe, rm, th>>

WaterfallReturn ==
  /\ wf.pc = "return"
  /\ wf' = [wf EXCEPT !.pc = "done",
                      !.result = WaterfallResult(wf.exitValuation, wf, wf.employeeOwnershipOfCommon)]
  /\ UNCHANGED <<solver, dil, tax, fr, sc, opp, pm, pipe, rm, th>>

InitWaterfall ==
  /\ pm = MetricsIdle
  /\ pipe = PipelineIdle
  /\ rm = RoundModelingIdle
  /\ th = ThrottleIdle
  /\ \E v \in ExitValuations, rounds \in PreferredRoundLists, own \in EmployeeOwnerships :
       wf = WaterfallCall(v, rounds, own)
  /\ solver = SolverIdle
  /\ dil = DilutionIdle
  /\ tax = TaxIdle
  /\ fr = FundingIdle
  /\ sc = ScenarioIdle
  /\ opp = OpportunityIdle

NextWaterfall ==
  \/ WaterfallNoPreferred
  \/ WaterfallBegin
  \/ FirstPassStep
  \/ SecondPassStep
  \/ WaterfallReturn

SpecWaterfall == InitWaterfall /\ [][NextWaterfall]_vars

\* C1: with exitValuation >= 0, remainingValue never goes below 0 at any step of
\* either pass, and the returned preferredPayout + commonPool is at most exitValuation.
WaterfallConservation ==
  /\ RGe(wf.remainingValue, RZero)
  /\ wf.pc = "done" =>
       RLe(RAdd(wf.result.preferredPayout, wf.result.commonPool), wf.exitValuation)

WaterfallConservationWitness ==
  /\ wf.pc = "done"
  /\ Len(wf.preferredRounds) = 2
  /\ wf.preferredRounds[1].preferredType # wf.preferredRounds[2].preferredType
  /\ RGt(wf.exitValuation, RZero)
  /\ wf.result.preferredPayout = wf.exitValuation
  /\ wf.result.commonPool = RZero

IsMixed(rounds) ==
  \E a, b \in 1..Len(rounds) : rounds[a].preferredType # rounds[b].preferredType

\* C2: for fixed rounds and ownership, employeePayout at a lower exit valuation is
\* never above employeePayout at a higher one.
WaterfallMonotone ==
  wf.pc = "done" =>
    \A v1 \in ExitValuations :
      RLe(v1, wf.exitValuation) =>
        RLe(CalculateWaterfall(v1, wf.preferredRounds, wf.employeeOwnershipPercent).employeePayout,
            wf.result.employeePayout)

WaterfallMonotoneWitness ==
  /\ wf.pc = "done"
  /\ IsMixed(wf.preferredRounds)
  /\ \E v1 \in ExitValuations :
       /\ RLt(v1, wf.exitValuation)
       /\ LET p1 == CalculateWaterfall(v1, wf.preferredRounds, wf.employeeOwnershipPercent).employeePayout
          IN  RGt(p1, RZero) /\ RLt(p1, wf.result.employeePayout)

\* C6: with no preferred rounds the employee gets exactly own/100 of the exit
\* valuation, nothing goes to preferred, the common pool is the whole exit
\* valuation and the employee's share of common is the ownership given.
NoPreferredProRata ==
  (wf.pc = "done" /\ Len(wf.preferredRounds) = 0) =>
    /\ RMul(wf.result.employeePayout, Hundred) = RMul(wf.employeeOwnershipPercent, wf.exitValuation)
    /\ wf.result.preferredPayout = RZero
    /\ wf.result.commonPool = wf.exitValuation
    /\ wf.result.employeeOwnershipOfCommon = wf.employeeOwnershipPercent

NoPreferredProRataWitness ==
  /\ wf.pc = "done"
  /\ Len(wf.preferredRounds) = 0
  /\ wf.exitValuation = RInt(40 * Million)
  /\ wf.employeeOwnershipPercent = RFrac(1, 10)
  /\ wf.result.employeePayout = RInt(40000)

\* what a round may take in the first pass
FirstPassEntitlement(round, exitValuation) ==
  LET preference == RMul(round.investedAmount, round.liquidationMultiple)
      proRata == RDiv(RMul(round.ownershipPercent, exitValuation), Hundred)
  IN  IF round.preferredType = "non-participating" THEN RMax(preference, proRata)
      ELSE preference

\* C7: the first pass pays the rounds from the last of the list to the first; a
\* round gets less than its entitlement only when it takes all that is left, and
\* then every round before it in the list gets 0 in the first pass.
FirstPassSeniority ==
  LET n == Len(wf.preferredRounds)
      paid == wf.firstPassPaid
  IN  \A j \in 1..Len(paid) :
        LET entitlement == FirstPassEntitlement(wf.preferredRounds[n + 1 - j], wf.exitValuation)
        IN  /\ paid[j].round = wf.preferredRounds[n + 1 - j]
            /\ RLe(paid[j].payout, entitlement)
            /\ RLt(paid[j].payout, entitlement) =>
                 /\ (j = Len(paid) /\ wf.pc = "first") => wf.remainingValue = RZero
                 /\ \A l \in (j + 1)..Len(paid) : paid[l].payout = RZero

FirstPassSeniorityWitness ==
  /\ Len(wf.firstPassPaid) = 2
  /\ wf.preferredRounds[1] # wf.preferredRounds[2]
  /\ RGt(wf.firstPassPaid[1].payout, RZero)
  /\ RLt(wf.firstPassPaid[1].payout,
         FirstPassEntitlement(wf.preferredRounds[2], wf.exitValuation))
  /\ wf.firstPassPaid[2].payout = RZero

\* C8: with preferred rounds, employeeOwnershipOfCommon is the ownership rescaled
\* by 100 / (100 - total preferred ownership), or 0 when nothing is left for
\* common, and employeePayout is that share of the common pool; one 1x
\* non-participating $10M round owning 20%, employee 0.1%, exit $40M gives
\* a $30M common pool, 0.125% of common and $37,500.
CommonShareRescaled ==
  (wf.pc = "done" /\ Len(wf.preferredRounds) > 0) =>
    LET totalCommon == RSub(Hundred, TotalPreferredOwnership(wf.preferredRounds))
        res == wf.result
    IN  /\ RGt(totalCommon, RZero) =>
             RMul(res.employeeOwnershipOfCommon, totalCommon)
               = RMul(wf.employeeOwnershipPercent, Hundred)
        /\ RLe(totalCommon, RZero) => res.employeeOwnershipOfCommon = RZero
        /\ RMul(res.employeePayout, Hundred) = RMul(res.employeeOwnershipOfCommon, res.commonPool)
        /\ ( /\ wf.preferredRounds =
                  <<[investedAmount |-> RInt(10 * Million), liquidationMultiple |-> RInt(1),
                     preferredType |-> "non-participating", ownershipPercent |-> RInt(20)]>>
             /\ wf.employeeOwnershipPercent = RFrac(1, 10)
             /\ wf.exitValuation = RInt(40 * Million) ) =>
             /\ res.commonPool = RInt(30 * Million)
             /\ res.employeeOwnershipOfCommon = RFrac(1, 8)
             /\ res.employeePayout = RInt(37500)

CommonShareRescaledWitness ==
  /\ wf.pc = "done"
  /\ Len(wf.preferredRounds) = 1
  /\ wf.preferredRounds[1].ownershipPercent = RInt(20)
  /\ wf.exitValuation = RInt(40 * Million)
  /\ wf.result.commonPool = RInt(30 * Million)
  /\ wf.result.employeeOwnershipOfCommon = RFrac(1, 8)
  /\ wf.result.employeePayout = RInt(37500)

RECURSIVE TotalPreference(_)
TotalPreference(rounds) ==
  IF rounds = << >> THEN RZero
  ELSE RAdd(RMul(Head(rounds).investedAmount, Head(rounds).liquidationMultiple),
            TotalPreference(Tail(rounds)))

\* C22: preferred shareholders are paid first: for a non-empty list and
\* 0 <= exitValuation <= sum of investedAmount * liquidationMultiple, the result
\* has commonPool = 0 and employeePayout = 0.
PreferredPaidFirst ==
  (wf.pc = "done" /\ Len(wf.preferredRounds) > 0
     /\ RLe(wf.exitValuation, TotalPreference(wf.preferredRounds))) =>
    /\ wf.result.commonPool = RZero
    /\ wf.result.employeePayout = RZero

\* 15M is paid out against 2x preferences on 10M
PreferredPaidFirstWitness ==
  /\ wf.pc = "done"
  /\ Len(wf.preferredRounds) = 1
  /\ wf.preferredRounds[1].liquidationMultiple = RInt(2)
  /\ wf.exitValuation = RInt(15 * Million)
  /\ wf.result.preferredPayout = RInt(15 * Million)
  /\ wf.result.commonPool = RZero

\* C26: liquidation preferences never raise the employee's payout above the
\* simple pro-rata share: for a non-empty list whose ownershipPercent sum to
\* less than 100, employeePayout <= employeeOwnershipPercent/100 * exitValuation.
PayoutAtMostProRata ==
  (wf.pc = "done" /\ Len(wf.preferredRounds) > 0
     /\ RLt(TotalPreferredOwnership(wf.preferredRounds), Hundred)) =>
    RLe(RMul(wf.result.employeePayout, Hundred),
        RMul(wf.employeeOwnershipPercent, wf.exitValuation))

(***************************************************************************)
(* The solver's specification                                              *)
(***************************************************************************)
InitSolver ==
  /\ pm = MetricsIdle
  /\ pipe = PipelineIdle
  /\ rm = RoundModelingIdle
  /\ th = ThrottleIdle
  /\ wf = WaterfallIdle
  /\ dil = DilutionIdle
  /\ tax = TaxIdle
  /\ fr = FundingIdle
  /\ sc = ScenarioIdle
  /\ opp = OpportunityIdle
  /\ \E rounds \in SolverRoundLists, own \in SolverOwnerships :
       \/ \E v \in RoundTripValuations :
            solver = SolverCall(PayoutAt(v, rounds, own), rounds, own, TRUE, v)
       \/ \E target \in TargetPayouts :
            solver = SolverCall(target, rounds, own, FALSE, RZero)

NextSolver ==
  \/ SolverClosedForm
  \/ SolverBegin
  \/ SolverGrow
  \/ SolverGrowEnd
  \/ SolverBisect
  \/ SolverReturn

SpecSolver == InitSolver /\ [][NextSolver]_vars


FloorAtZero(x) == RMax(RZero, x)

SolverPayoutAt(valuation) ==
  PayoutAt(valuation, solver.preferredRounds, solver.ownershipPercent)

\* C3 as stated: the valuation found for the payout at V is within 1000 of V.
RoundTripWithinPrecision ==
  (solver.pc = "done" /\ solver.roundTrip /\ RGt(solver.ownershipPercent, RZero)) =>
    RLe(RAbs(RSub(solver.result, solver.exitValuation)), RInt(SearchPrecision))

\* C3 amended: for 0 <= V <= 1e15 and own > 0 the valuation found for the payout
\* at V is at most V + 1000, and it is within 1000 of V whenever the payout at
\* V - 1000 (at 0 when V < 1000) is below the payout at V.
RoundTripWhereIncreasing ==
  (solver.pc = "done" /\ solver.roundTrip /\ RGt(solver.ownershipPercent, RZero)) =>
    LET v == solver.exitValuation
        below == FloorAtZero(RSub(v, RInt(SearchPrecision)))
    IN  /\ RLe(solver.result, RAdd(v, RInt(SearchPrecision)))
        /\ RLt(SolverPayoutAt(below), SolverPayoutAt(v)) =>
             RLe(RAbs(RSub(solver.result, v)), RInt(SearchPrecision))

RoundTripWhereIncreasingWitness ==
  /\ solver.pc = "done"
  /\ solver.roundTrip
  /\ Len(solver.preferredRounds) > 0
  /\ RGt(solver.ownershipPercent, RZero)
  /\ solver.exitValuation = RInt(40 * Million)
  /\ RGt(solver.low, RZero)
  /\ solver.result # solver.exitValuation
  /\ RLe(RAbs(RSub(solver.result, solver.exitValuation)), RInt(SearchPrecision))

\* C4: every call returns.  Both loops are deterministic, and during the
\* bisection low never decreases and high never increases, so a call fails to
\* return exactly when an iteration leaves low and high as they are: every
\* iteration that is taken changes the interval.
SolverTerminates ==
  /\ (solver.pc = "grow" /\ RLt(SolverPayoutAt(solver.high), solver.targetPayout)) =>
       GrowHigh(solver.high) # solver.high
  /\ (solver.pc = "search" /\ RGt(Width(solver.low, solver.high), RInt(SearchPrecision))) =>
       LET mid == Mid(solver.low, solver.high)
           next == Narrow(solver.low, solver.high, mid,
                          RLt(SolverPayoutAt(mid), solver.targetPayout))
       IN  next.low # solver.low \/ next.high # solver.high

\* C5 as stated: for targetPayout > 0, a non-empty round list and own > 0 the
\* valuation returned pays at least the target, and 1000 below it pays less.
SmallestMeetingTarget ==
  ( /\ solver.pc = "done"
    /\ RGt(solver.targetPayout, RZero)
    /\ Len(solver.preferredRounds) > 0
    /\ RGt(solver.ownershipPercent, RZero) ) =>
    /\ RGe(SolverPayoutAt(solver.result), solver.targetPayout)
    /\ RLt(SolverPayoutAt(FloorAtZero(RSub(solver.result, RInt(SearchPrecision)))),
           solver.targetPayout)

\* C5 amended: the same, for the targets the payout reaches at a valuation of at
\* most 1e15.
SmallestMeetingReachableTarget ==
  ( /\ solver.pc = "done"
    /\ RGt(solver.targetPayout, RZero)
    /\ Len(solver.preferredRounds) > 0
    /\ RGt(solver.ownershipPercent, RZero)
    /\ RGe(SolverPayoutAt(SafetyLimit), solver.targetPayout) ) =>
    /\ RGe(SolverPayoutAt(solver.result), solver.targetPayout)
    /\ RLt(SolverPayoutAt(FloorAtZero(RSub(solver.result, RInt(SearchPrecision)))),
           solver.targetPayout)

SmallestMeetingReachableTargetWitness ==
  /\ solver.pc = "done"
  /\ solver.targetPayout = RInt(37500)
  /\ Len(solver.preferredRounds) > 0
  /\ RGt(solver.ownershipPercent, RZero)
  /\ RGt(solver.low, RZero)
  /\ RGe(SolverPayoutAt(solver.result), solver.targetPayout)

\* C20: whenever targetPayout * 100 <= 1e15, the doubling phase never leaves high
\* above 1e15, so the valuation the search returns is at most 1e15.
HighCappedAtSafetyLimit ==
  RLe(RMul(solver.targetPayout, Hundred), SafetyLimit) =>
    /\ solver.pc = "search" => RLe(solver.high, SafetyLimit)
    /\ (solver.pc = "done" /\ Len(solver.preferredRounds) > 0
          /\ RGt(solver.ownershipPercent, RZero)) =>
         RLe(solver.result, SafetyLimit)

(***************************************************************************)
(* The dilution functions' specification                                   *)
(***************************************************************************)
InitDilution ==
  /\ pm = MetricsIdle
  /\ pipe = PipelineIdle
  /\ rm = RoundModelingIdle
  /\ th = ThrottleIdle
  /\ wf = WaterfallIdle
  /\ solver = SolverIdle
  /\ tax = TaxIdle
  /\ fr = FundingIdle
  /\ sc = ScenarioIdle
  /\ opp = OpportunityIdle
  /\ \E x \in InitialOwnerships, rounds \in DilutionRoundLists : dil = DilutionCall(x, rounds)

NextDilution ==
  \/ CallOwnershipAfterDilution
  \/ CallTotalDilution

SpecDilution == InitDilution /\ [][NextDilution]_vars

\* 100^n and the product of (100 - dilutionPercent) over the rounds
RECURSIVE HundredToThe(_)
HundredToThe(n) == IF n = 0 THEN RInt(1) ELSE RMul(Hundred, HundredToThe(n - 1))

RECURSIVE RetainedProduct(_)
RetainedProduct(rounds) ==
  IF rounds = << >> THEN RInt(1)
  ELSE RMul(RSub(Hundred, Head(rounds).dilutionPercent), RetainedProduct(Tail(rounds)))

NoDilution(rounds) == \A i \in 1..Len(rounds) : rounds[i].dilutionPercent = RZero

\* C9 as stated: the ownership after dilution is at most the initial ownership x,
\* and equals x exactly when the list is empty or every dilutionPercent is 0.
DilutionNeverIncreases ==
  dil.ownershipDone =>
    /\ RLe(dil.ownershipAfterDilution, dil.initialOwnership)
    /\ dil.ownershipAfterDilution = dil.initialOwnership <=> NoDilution(dil.dilutionRounds)

\* C9 amended: the ownership after dilution is at most x; for x > 0 it equals x
\* exactly when the list is empty or every dilutionPercent is 0, and for x = 0
\* it is 0 whatever the rounds.
DilutionNeverIncreasesPositive ==
  dil.ownershipDone =>
    /\ RLe(dil.ownershipAfterDilution, dil.initialOwnership)
    /\ RGt(dil.initialOwnership, RZero) =>
         (dil.ownershipAfterDilution = dil.initialOwnership <=> NoDilution(dil.dilutionRounds))
    /\ dil.initialOwnership = RZero => dil.ownershipAfterDilution = RZero

DilutionNeverIncreasesPositiveWitness ==
  /\ dil.ownershipDone
  /\ Len(dil.dilutionRounds) = 2
  /\ dil.dilutionRounds[1].dilutionPercent = RZero
  /\ dil.dilutionRounds[2].dilutionPercent = RInt(15)
  /\ RGt(dil.ownershipAfterDilution, RZero)
  /\ RLt(dil.ownershipAfterDilution, dil.initialOwnership)

\* C10: the ownership after dilution is x times the product of
\* (1 - dilutionPercent/100) and the total dilution is (1 - that product) * 100;
\* no rounds leave x unchanged with 0 total dilution, one 100% round leaves 0,
\* and 20% then 15% take 0.1 to 0.068 with 32% total dilution.
CompoundDilution ==
  LET rounds == dil.dilutionRounds
      scale == HundredToThe(Len(rounds))
      twentyThenFifteen == <<[dilutionPercent |-> RInt(20)], [dilutionPercent |-> RInt(15)]>>
  IN  /\ dil.ownershipDone =>
           /\ RMul(dil.ownershipAfterDilution, scale)
                = RMul(dil.initialOwnership, RetainedProduct(rounds))
           /\ rounds = << >> => dil.ownershipAfterDilution = dil.initialOwnership
           /\ rounds = <<[dilutionPercent |-> Hundred]>> => dil.ownershipAfterDilution = RZero
           /\ (rounds = twentyThenFifteen /\ dil.initialOwnership = RFrac(1, 10)) =>
                dil.ownershipAfterDilution = RFrac(68, 1000)
      /\ dil.totalDone =>
           /\ RMul(dil.totalDilution, scale)
                = RMul(RSub(scale, RetainedProduct(rounds)), Hundred)
           /\ rounds = << >> => dil.totalDilution = RZero
           /\ rounds = twentyThenFifteen => dil.totalDilution = RInt(32)

CompoundDilutionWitness ==
  /\ dil.ownershipDone
  /\ dil.totalDone
  /\ dil.initialOwnership = RFrac(1, 10)
  /\ dil.dilutionRounds = <<[dilutionPercent |-> RInt(20)], [dilutionPercent |-> RInt(15)]>>
  /\ dil.ownershipAfterDilution = RFrac(68, 1000)
  /\ dil.totalDilution = RInt(32)

(***************************************************************************)
(* The tax calculation's specification                                     *)
(***************************************************************************)
InitTaxes ==
  /\ pm = MetricsIdle
  /\ pipe = PipelineIdle
  /\ rm = RoundModelingIdle
  /\ th = ThrottleIdle
  /\ wf = WaterfallIdle
  /\ solver = SolverIdle
  /\ dil = DilutionIdle
  /\ fr = FundingIdle
  /\ sc = ScenarioIdle
  /\ opp = OpportunityIdle
  /\ \E n \in NumbersOfOptions, strike \in StrikePrices, fmv \in ExerciseFMVs,
        type \in OptionTypes, bracket \in FederalTaxBrackets, wages \in AnnualWages :
       tax = TaxCall(n, strike, fmv, type, bracket, wages)

NextTaxes ==
  \/ CalculateTaxesISO
  \/ CalculateTaxesNSO

SpecTaxes == InitTaxes /\ [][NextTaxes]_vars

NSODone == tax.pc = "done" /\ tax.optionType = "NSO"

\* spreadTotal = max(0, FMV - strike) * numberOfOptions, from the arguments
ArgSpreadTotal ==
  IF RGt(tax.exerciseFMV, tax.strikePrice)
    THEN RMul(RSub(tax.exerciseFMV, tax.strikePrice), tax.numberOfOptions)
    ELSE RZero

SpecExampleNSO ==
  /\ NSODone
  /\ tax.numberOfOptions = RInt(10000)
  /\ tax.strikePrice = RInt(1)
  /\ tax.exerciseFMV = RInt(5)
  /\ tax.federalTaxBracket = RFrac(32, 100)
  /\ ~tax.annualWages.defined

\* C13 as stated: for NSO options ordinaryIncomeTax = spreadTotal * federalTaxBracket
\* and estimatedTaxAtExercise = ordinaryIncomeTax + ficaTax; 10000 options, strike 1,
\* FMV 5, bracket 0.32 and no wages give 12,800, FICA 3,060 and 15,860.
NSOIncomeTaxThenFica ==
  NSODone =>
    /\ tax.result.ordinaryIncomeTax = RMul(ArgSpreadTotal, tax.federalTaxBracket)
    /\ tax.result.estimatedTaxAtExercise
         = RAdd(tax.result.ordinaryIncomeTax, tax.result.ficaTax)
    /\ SpecExampleNSO =>
         /\ tax.result.ordinaryIncomeTax = RInt(12800)
         /\ tax.result.ficaTax = RInt(3060)
         /\ tax.result.estimatedTaxAtExercise = RInt(15860)

\* C13 amended: for NSO options ordinaryIncomeTax = spreadTotal * federalTaxBracket
\* + ficaTax (it includes FICA) and estimatedTaxAtExercise = ordinaryIncomeTax; the
\* example gives ordinaryIncomeTax 15,860, ficaTax 3,060 and estimatedTaxAtExercise 15,860.
NSOOrdinaryIncomeTaxIncludesFica ==
  NSODone =>
    /\ tax.result.ordinaryIncomeTax
         = RAdd(RMul(ArgSpreadTotal, tax.federalTaxBracket), tax.result.ficaTax)
    /\ tax.result.estimatedTaxAtExercise = tax.result.ordinaryIncomeTax
    /\ SpecExampleNSO =>
         /\ tax.result.ordinaryIncomeTax = RInt(15860)
         /\ tax.result.ficaTax = RInt(3060)
         /\ tax.result.estimatedTaxAtExercise = RInt(15860)

NSOOrdinaryIncomeTaxIncludesFicaWitness ==
  /\ SpecExampleNSO
  /\ tax.result.spreadTotal = RInt(40000)
  /\ tax.result.estimatedTaxAtExercise = RInt(15860)

\* C14: for NSO options ficaTax is 7.65% of spreadTotal when annualWages is
\* undefined, 1.45% of spreadTotal when annualWages >= 176,100, and otherwise 6.2%
\* of min(spreadTotal, 176,100 - annualWages) plus 1.45% of spreadTotal.
FicaTaxBySocialSecurityCap ==
  NSODone =>
    LET spreadTotal == ArgSpreadTotal
        wages == tax.annualWages
        room == RSub(RInt(176100), wages.value)
        ssable == IF RLe(spreadTotal, room) THEN spreadTotal ELSE room
        tenThousand == RInt(10000)
    IN  /\ tax.result.spreadTotal = spreadTotal
        /\ ~wages.defined =>
             RMul(tax.result.ficaTax, tenThousand) = RMul(spreadTotal, RInt(765))
        /\ (wages.defined /\ RGe(wages.value, RInt(176100))) =>
             RMul(tax.result.ficaTax, tenThousand) = RMul(spreadTotal, RInt(145))
        /\ (wages.defined /\ RLt(wages.value, RInt(176100))) =>
             RMul(tax.result.ficaTax, tenThousand)
               = RAdd(RMul(ssable, RInt(620)), RMul(spreadTotal, RInt(145)))

\* wages of 150,000 leave 26,100 of the 40,000 spread under the cap
FicaTaxBySocialSecurityCapWitness ==
  /\ NSODone
  /\ tax.annualWages = Wages(RInt(150000))
  /\ tax.result.spreadTotal = RInt(40000)
  /\ tax.result.ssCapped
  /\ tax.result.ficaTax = RFrac(21982, 10)

(***************************************************************************)
(* The funding-round functions' specification                              *)
(***************************************************************************)
InitFundingRounds ==
  /\ pm = MetricsIdle
  /\ pipe = PipelineIdle
  /\ rm = RoundModelingIdle
  /\ th = ThrottleIdle
  /\ wf = WaterfallIdle
  /\ solver = SolverIdle
  /\ dil = DilutionIdle
  /\ tax = TaxIdle
  /\ sc = ScenarioIdle
  /\ opp = OpportunityIdle
  /\ \E rounds \in FundingRoundLists : fr = FundingCall(rounds)

NextFundingRounds ==
  \/ CallDeriveCompanyStage
  \/ CallFundingRoundsToPreferredRounds

SpecFundingRounds == InitFundingRounds /\ [][NextFundingRounds]_vars

\* the stage the claim gives a lower-cased name
StageBySeriesLetter(name) ==
  IF Includes(name, PatternSeriesC) \/ Includes(name, PatternSeriesD) THEN "Series C+"
  ELSE IF Includes(name, PatternSeriesB) THEN "Series B"
  ELSE IF Includes(name, PatternSeriesA) THEN "Series A"
  ELSE "Seed"

\* C18: deriveCompanyStage returns Seed for an empty list; otherwise the
\* lower-cased name of the last round decides: containing 'series c' or 'series d'
\* gives Series C+, else 'series b' gives Series B, else 'series a' gives Series A,
\* and every other name (those containing 'seed' included) gives Seed.
StageFromLastRoundName ==
  fr.stageDone =>
    fr.stage = IF fr.fundingRounds = << >> THEN "Seed"
               ELSE StageBySeriesLetter(
                      ToLowerCase(fr.fundingRounds[Len(fr.fundingRounds)].name))

(***************************************************************************)
(* The scenario functions' specification                                   *)
(***************************************************************************)
InitScenarios ==
  /\ pm = MetricsIdle
  /\ pipe = PipelineIdle
  /\ rm = RoundModelingIdle
  /\ th = ThrottleIdle
  /\ wf = WaterfallIdle
  /\ solver = SolverIdle
  /\ dil = DilutionIdle
  /\ tax = TaxIdle
  /\ fr = FundingIdle
  /\ opp = OpportunityIdle
  /\ \/ \E stage \in CompanyStages : sc = StageAdjustedCall(stage)
     \/ \E own \in ScenarioOwnerships, v \in CompanyValuations, cost \in ExerciseCosts,
           scenarios \in ScenarioLists :
          sc = ExpectedValueCall(own, v, cost, scenarios)

NextScenarios ==
  \/ StageAdjustStep
  \/ StageAdjustReturn
  \/ CallExpectedValue

SpecScenarios == InitScenarios /\ [][NextScenarios]_vars

RECURSIVE SumProbability(_)
SumProbability(scenarios) ==
  IF scenarios = << >> THEN RZero
  ELSE RAdd(Head(scenarios).probability, SumProbability(Tail(scenarios)))

StageAdjustedDone == sc.fn = "getStageAdjustedExitScenarios" /\ sc.pc = "done"

\* C11: for each of the five stages the probabilities of the scenarios returned
\* by getStageAdjustedExitScenarios sum to 1.0 within 1e-6.
StageProbabilitiesSumToOne ==
  StageAdjustedDone =>
    RLe(RAbs(RSub(SumProbability(sc.result), RInt(1))), RFrac(1, Million))

\* Pre-Seed: the adjusted probabilities add up to 1.01875 before renormalization
StageProbabilitiesSumToOneWitness ==
  /\ StageAdjustedDone
  /\ sc.stage = "Pre-Seed"
  /\ sc.totalProb = RFrac(163, 160)
  /\ Len(sc.result) = 6

\* C12: every scenario returned by getStageAdjustedExitScenarios has a
\* probability between 0 and 1 inclusive, for each of the five stages.
StageProbabilitiesInUnitInterval ==
  StageAdjustedDone =>
    \A i \in 1..Len(sc.result) :
      /\ RGe(sc.result[i].probability, RZero)
      /\ RLe(sc.result[i].probability, RInt(1))

\* C23: for every stage the Failure scenario, the first of the list returned,
\* has the stage's failureProb of STAGE_EXIT_ADJUSTMENTS as its probability, and
\* the names, multiples and order of the six scenarios are those of
\* DEFAULT_EXIT_SCENARIOS.
FailureProbabilityOfStage ==
  StageAdjustedDone =>
    /\ sc.result[1].probability = STAGE_EXIT_ADJUSTMENTS[sc.stage].failureProb
    /\ Len(sc.result) = Len(DEFAULT_EXIT_SCENARIOS)
    /\ \A i \in 1..Len(sc.result) :
         /\ sc.result[i].name = DEFAULT_EXIT_SCENARIOS[i].name
         /\ sc.result[i].multiple = DEFAULT_EXIT_SCENARIOS[i].multiple

ExpectedValueDone == sc.fn = "calculateExpectedValue" /\ sc.pc = "done"

\* sum over the scenarios of probability * multiple
RECURSIVE SumProbabilityTimesMultiple(_)
SumProbabilityTimesMultiple(scenarios) ==
  IF scenarios = << >> THEN RZero
  ELSE RAdd(RMul(Head(scenarios).probability, Head(scenarios).multiple),
            SumProbabilityTimesMultiple(Tail(scenarios)))

\* C15: calculateExpectedValue is the sum over the scenarios of probability *
\* (ownershipPercent/100 * companyValuation * multiple) minus exerciseCost; zero
\* ownership or no scenarios give -exerciseCost, and ownership 0.1, valuation
\* 50,000,000, cost 15,000 with {0x: 0.5, 10x: 0.5} give 235,000.
ExpectedValueIsWeightedSum ==
  ExpectedValueDone =>
    /\ RMul(RAdd(sc.expectedValue, sc.exerciseCost), Hundred)
         = RMul(RMul(sc.ownershipPercent, sc.companyValuation),
                SumProbabilityTimesMultiple(sc.scenarios))
    /\ (sc.ownershipPercent = RZero \/ sc.scenarios = << >>) =>
         sc.expectedValue = RNeg(sc.exerciseCost)
    /\ (sc.ownershipPercent = RFrac(1, 10) /\ sc.companyValuation = RInt(50 * Million)
          /\ sc.exerciseCost = RInt(15000) /\ sc.scenarios = EvenOdds) =>
         sc.expectedValue = RInt(235000)

ExpectedValueIsWeightedSumWitness ==
  /\ ExpectedValueDone
  /\ sc.ownershipPercent = RFrac(1, 10)
  /\ sc.companyValuation = RInt(50 * Million)
  /\ sc.exerciseCost = RInt(15000)
  /\ sc.scenarios = EvenOdds
  /\ sc.expectedValue = RInt(235000)

(***************************************************************************)
(* The opportunity-cost comparison's specification                         *)
(***************************************************************************)
InitOpportunityCost ==
  /\ pm = MetricsIdle
  /\ pipe = PipelineIdle
  /\ rm = RoundModelingIdle
  /\ th = ThrottleIdle
  /\ wf = WaterfallIdle
  /\ solver = SolverIdle
  /\ dil = DilutionIdle
  /\ tax = TaxIdle
  /\ fr = FundingIdle
  /\ sc = ScenarioIdle
  /\ \E cost \in Principals, own \in OpportunityOwnerships, rate \in AlternativeReturnRates,
        horizon \in 0..MaxHorizon :
       opp = OpportunityCall(cost, own, RInt(50 * Million), rate, horizon)

NextOpportunityCost ==
  \/ OpportunityYear
  \/ OpportunityReturn

SpecOpportunityCost == InitOpportunityCost /\ [][NextOpportunityCost]_vars

\* the point of year y and whether the options are ahead of the alternative's gain there
PointOfYear(y) == opp.dataPoints[y + 1]

OptionsAhead(y) ==
  RGt(PointOfYear(y).optionsExpectedValue,
      RSub(PointOfYear(y).alternativeValue, opp.exerciseCost))

\* C16: breakEvenYear is the smallest year y in 0..timeHorizonYears with
\* optionsExpectedValue(y) > alternativeValue(y) - principal, and null when no
\* year in that range has it.
BreakEvenYearIsFirst ==
  opp.pc = "done" =>
    LET ahead == {y \in 0..opp.timeHorizonYears : OptionsAhead(y)}
    IN  /\ ahead = {} => opp.breakEvenYear = NullYear
        /\ ahead # {} =>
             opp.breakEvenYear = Year(CHOOSE y \in ahead : \A z \in ahead : y <= z)

\* the options are ahead in year 3 and again in later years
BreakEvenYearIsFirstWitness ==
  /\ opp.pc = "done"
  /\ opp.timeHorizonYears >= 5
  /\ opp.breakEvenYear = Year(3)
  /\ OptionsAhead(4)
  /\ OptionsAhead(5)

\* sum over DEFAULT_EXIT_SCENARIOS of probability * max(0, exitValue - exerciseCost),
\* times 100
RECURSIVE ExpectedProfitTimesHundred(_)
ExpectedProfitTimesHundred(scenarios) ==
  IF scenarios = << >> THEN RZero
  ELSE LET exitValueTimesHundred ==
             RMul(RMul(opp.ownershipPercent, opp.companyValuation), Head(scenarios).multiple)
           costTimesHundred == RMul(opp.exerciseCost, Hundred)
           profit == IF RGt(exitValueTimesHundred, costTimesHundred)
                       THEN RSub(exitValueTimesHundred, costTimesHundred)
                       ELSE RZero
       IN  RAdd(RMul(Head(scenarios).probability, profit),
                ExpectedProfitTimesHundred(Tail(scenarios)))

\* C17: for an integer horizon H >= 0 there are exactly H+1 data points with
\* years 0..H in ascending order, each with alternativeValue = principal *
\* (1+rate)^year and optionsExpectedValue = 0 for year < 3 and min(1, (year-2)/8) *
\* sum(probability * max(0, exitValue - exerciseCost)) for year >= 3; the final
\* values are those of the point with year = H.
DataPointPerYear ==
  opp.pc = "done" =>
    LET H == opp.timeHorizonYears
        growth == RAdd(RInt(1), opp.alternativeReturnRate)
    IN  /\ Len(opp.dataPoints) = H + 1
        /\ \A y \in 0..H :
             /\ PointOfYear(y).year = y
             /\ PointOfYear(y).alternativeValue
                  = IF y = 0 THEN opp.exerciseCost
                    ELSE RMul(PointOfYear(y - 1).alternativeValue, growth)
             /\ y < 3 => PointOfYear(y).optionsExpectedValue = RZero
             /\ y >= 3 =>
                  RMul(PointOfYear(y).optionsExpectedValue, RInt(800))
                    = RMul(RInt(IF y - 2 < 8 THEN y - 2 ELSE 8),
                           ExpectedProfitTimesHundred(DEFAULT_EXIT_SCENARIOS))
        /\ opp.finalAlternativeValue = PointOfYear(H).alternativeValue
        /\ opp.finalOptionsExpectedValue = PointOfYear(H).optionsExpectedValue

\* a horizon past year 10, where the ramp has reached 1
DataPointPerYearWitness ==
  /\ opp.pc = "done"
  /\ opp.timeHorizonYears >= 11
  /\ opp.exerciseCost = RInt(15000)
  /\ opp.ownershipPercent = RFrac(1, 10)
  /\ PointOfYear(3).optionsExpectedValue = RFrac(540625, 100)
  /\ opp.finalOptionsExpectedValue = RInt(43250)

\* C28: for principal >= 0 and alternativeReturnRate >= 0 the breakEvenYear is
\* null or at least 3: in years 0, 1 and 2 the options' expected value is 0.
BreakEvenNotBeforeYearThree ==
  (RGe(opp.exerciseCost, RZero) /\ RGe(opp.alternativeReturnRate, RZero)) =>
    (opp.breakEvenYear = NullYear \/ opp.breakEvenYear[1] >= 3)

\* a free exercise at a zero return rate breaks even in year 3
BreakEvenNotBeforeYearThreeWitness ==
  /\ opp.pc = "done"
  /\ opp.exerciseCost = RZero
  /\ opp.alternativeReturnRate = RZero
  /\ opp.timeHorizonYears >= 3
  /\ opp.breakEvenYear = Year(3)

(***************************************************************************)
(* The primitive metrics' specification                                    *)
(***************************************************************************)
InitMetrics ==
  /\ wf = WaterfallIdle
  /\ solver = SolverIdle
  /\ dil = DilutionIdle
  /\ tax = TaxIdle
  /\ fr = FundingIdle
  /\ sc = ScenarioIdle
  /\ opp = OpportunityIdle
  /\ pipe = PipelineIdle
  /\ rm = RoundModelingIdle
  /\ th = ThrottleIdle
  /\ \/ \E n \in MetricOptions, fmv \in MetricFMVs, own \in MetricOwnerships :
          pm = MetricCall("deriveValuationFromOwnership", n, fmv, own)
     \/ \E gain \in MetricGains, cost \in MetricCosts :
          pm = MetricCall("calculatePaperGainPercent", gain, cost, RZero)
     \/ \E strike \in MetricStrikes, fmv \in MetricFMVs :
          pm = MetricCall("calculateBreakEvenMultiple", strike, fmv, RZero)
     \/ \E profit \in MetricGains, cost \in MetricCosts :
          pm = MetricCall("calculateROI", profit, cost, RZero)

NextMetrics ==
  \/ CallDeriveValuationFromOwnership
  \/ CallPaperGainPercent
  \/ CallBreakEvenMultiple
  \/ CallROI

SpecMetrics == InitMetrics /\ [][NextMetrics]_vars

\* C21: on a zero denominator the primitive metrics return their fallback: with
\* exerciseCost = 0 calculatePaperGainPercent returns 0 and calculateROI returns
\* Infinity for a positive profit and 0 otherwise; with currentFMV = 0
\* calculateBreakEvenMultiple returns Infinity; with ownershipPercent <= 0 or
\* numberOfOptions <= 0 deriveValuationFromOwnership returns 0.
MetricFallbacks ==
  pm.pc = "done" =>
    /\ (pm.fn = "calculatePaperGainPercent" /\ pm.b = RZero) => pm.result = RZero
    /\ (pm.fn = "calculateROI" /\ pm.b = RZero) =>
         pm.result = IF pm.a.s > 0 /\ pm.a.n # << >> THEN Infinity ELSE RZero
    /\ (pm.fn = "calculateBreakEvenMultiple" /\ pm.b = RZero) => pm.result = Infinity
    /\ (pm.fn = "deriveValuationFromOwnership" /\ (RLe(pm.c, RZero) \/ RLe(pm.a, RZero))) =>
         pm.result = RZero

\* a return on a free exercise with a profit
MetricFallbacksWitness ==
  /\ pm.pc = "done"
  /\ pm.fn = "calculateROI"
  /\ pm.b = RZero
  /\ pm.a = RInt(40000)
  /\ pm.result = Infinity

(***************************************************************************)
(* The pipeline's specification                                            *)
(***************************************************************************)
InitPipeline ==
  /\ wf = WaterfallIdle
  /\ solver = SolverIdle
  /\ dil = DilutionIdle
  /\ tax = TaxIdle
  /\ fr = FundingIdle
  /\ sc = ScenarioIdle
  /\ opp = OpportunityIdle
  /\ pm = MetricsIdle
  /\ rm = RoundModelingIdle
  /\ th = ThrottleIdle
  /\ \E own \in PipelineOwnerships, rounds \in PipelineRoundLists, v \in PipelineExitValuations :
       pipe = PipelineInputs(own, rounds, v)

NextPipeline ==
  \/ PipelineDerive
  \/ PipelineWaterfall
  \/ PipelineNoWaterfall

SpecPipeline == InitPipeline /\ [][NextPipeline]_vars

\* C27: in the pipeline, where calculateWaterfall gets the ownership after
\* dilution and the preferred rounds of the same funding rounds,
\* employeeOwnershipOfCommon never exceeds 100 and employeePayout never exceeds
\* commonPool.
PipelineShareWithinCommonPool ==
  (pipe.pc = "done" /\ HasPreferred(pipe.preferredRounds)) =>
    /\ RLe(pipe.waterfall.employeeOwnershipOfCommon, Hundred)
    /\ RLe(pipe.waterfall.employeePayout, pipe.waterfall.commonPool)

(***************************************************************************)
(* RoundModeling's specification                                           *)
(***************************************************************************)
InitRoundModeling ==
  /\ wf = WaterfallIdle
  /\ solver = SolverIdle
  /\ dil = DilutionIdle
  /\ tax = TaxIdle
  /\ fr = FundingIdle
  /\ sc = ScenarioIdle
  /\ opp = OpportunityIdle
  /\ pm = MetricsIdle
  /\ pipe = PipelineIdle
  /\ th = ThrottleIdle
  /\ rm = RoundModelingState(<< >>, "mount")

NextRoundModeling ==
  \/ ClickAddRound
  \/ ClickRemoveLastRound
  \/ ChangeRound
  \/ ClickResetAdvanced

SpecRoundModeling == InitRoundModeling /\ [][NextRoundModeling]_vars

RoundNamesOf(rounds) == [i \in 1..Len(rounds) |-> rounds[i].name]

\* C29: from an empty list, after any addRound, removeLastRound, updateRound and
\* resetAdvancedToDefaults the round names are the first k entries of
\* FUNDING_ROUNDS in order for some k in 0..5, no add is offered when k = 5, and
\* removeLastRound on an empty list changes nothing.
RoundNamesArePrefix ==
  /\ [](/\ Len(rm.rounds) <= Len(FUNDING_ROUNDS)
        /\ RoundNamesOf(rm.rounds) = SubSeq(FUNDING_ROUNDS, 1, Len(rm.rounds))
        /\ Len(rm.rounds) = 5 => NextRound(rm.rounds) = NoRound)
  /\ [][(rm'.op = "removeLastRound" /\ rm.rounds = << >>) => rm'.rounds = << >>]_vars

\* all five rounds are there, some of them edited, and no further round is offered
RoundNamesArePrefixWitness ==
  /\ Len(rm.rounds) = 5
  /\ rm.rounds[5].name = NameSeriesDPlus
  /\ rm.rounds[2].preferredType = "participating"
  /\ NextRound(rm.rounds) = NoRound

(***************************************************************************)
(* The throttled slider's specification                                    *)
(***************************************************************************)
InitThrottle ==
  /\ wf = WaterfallIdle
  /\ solver = SolverIdle
  /\ dil = DilutionIdle
  /\ tax = TaxIdle
  /\ fr = FundingIdle
  /\ sc = ScenarioIdle
  /\ opp = OpportunityIdle
  /\ pm = MetricsIdle
  /\ pipe = PipelineIdle
  /\ rm = RoundModelingIdle
  /\ \E delay \in ThrottleDelays : th = ThrottleState("mounted", delay)

NextThrottle ==
  \/ Tick
  \/ SliderChange
  \/ TimerFire
  \/ OtherChange

SpecThrottle == InitThrottle /\ [][NextThrottle]_vars

\* C24: two successive invocations of the callback are at least delay apart.
InvocationsDelayApart ==
  Len(th.invokedAt) = 2 => th.invokedAt[2] - th.invokedAt[1] >= th.delay

\* C25: at most one timer is pending at a time, and once no timer is pending
\* the callback has been invoked with the arguments of the latest call.
TrailingCallPreserved ==
  /\ Cardinality(th.timers) <= 1
  /\ (th.lastArgs # Null /\ th.timers = {}) => th.invokedArgs = th.lastArgs

\* a call inside the delay window was delivered by the timer, with other
\* arguments than the invocation that opened the window
TrailingCallPreservedWitness ==
  /\ th.trailing
  /\ th.timers = {}
  /\ Len(th.invokedAt) = 2
  /\ th.invokedArgs = th.lastArgs
  /\ th.invokedArgs = Ref(2)
  /\ th.lastCall = th.invokedAt[2]

\* C30: the trailing invocation of a slider's change sets the slider's field to
\* the latest value and leaves every other field of the inputs as it is.
TrailingChangeKeepsOtherFields ==
  [][(th.timeoutRef # Null /\ th'.timeoutRef = Null) =>
       /\ th'.inputs.slider = th.lastArgs[1]
       /\ th'.inputs.other = th.inputs.other]_vars

(***************************************************************************)
(* All calls together                                                      *)
(***************************************************************************)
Init == InitWaterfall \/ InitSolver \/ InitDilution \/ InitTaxes \/ InitFundingRounds \/ InitScenarios
          \/ InitOpportunityCost \/ InitMetrics \/ InitPipeline
          \/ InitRoundModeling \/ InitThrottle

Next == NextWaterfall \/ NextSolver \/ NextDilution \/ NextTaxes \/ NextFundingRounds \/ NextScenarios
          \/ NextOpportunityCost \/ NextMetrics \/ NextPipeline
          \/ NextRoundModeling \/ NextThrottle

Spec == Init /\ [][Next]_vars

(***************************************************************************)
(* The caller's lists                                                      *)
(***************************************************************************)
\* C19: no engine function changes the round or scenario list it is given:
\* through calculateWaterfall, findExitForTargetPayout, the dilution functions,
\* fundingRoundsToPreferredRounds and getStageAdjustedExitScenarios the caller's
\* list keeps its elements, their order and their fields, and
\* DEFAULT_EXIT_SCENARIOS stays as it is.
CallerListsUnchanged ==
  [][/\ wf'.preferredRounds = wf.preferredRounds
     /\ solver'.preferredRounds = solver.preferredRounds
     /\ dil'.dilutionRounds = dil.dilutionRounds
     /\ fr'.fundingRounds = fr.fundingRounds
     /\ sc'.scenarios = sc.scenarios
     /\ sc'.defaults = sc.defaults]_vars

\* calculateWaterfall has returned for two different rounds, walked in reverse
CallerListsUnchangedWitness ==
  /\ wf.pc = "done"
  /\ Len(wf.preferredRounds) = 2
  /\ wf.preferredRounds[1] # wf.preferredRounds[2]
  /\ wf.sortedRounds = <<wf.preferredRounds[2], wf.preferredRounds[1]>>

====
